---- MODULE Spec2Model ----
(***************************************************************************)
(* Model of the response-recovery parser (parse_util.robust_json_parse)   *)
(* and of the stage parsers built on it (generate_chain.parse_features,   *)
(* parse_test_points, parse_test_cases); of the stage functions and API   *)
(* endpoints around them; of the full pipeline (api.run_full_pipeline);   *)
(* and of the streaming stages (model_util.generate_response_vllm_stream  *)
(* and generate_chain.generate_*_for_gradio_stream).                       *)
(*                                                                         *)
(* Spec is one call of the parser, SpecStage one call of a stage function *)
(* or endpoint, SpecPipeline one run of the full pipeline and SpecStream  *)
(* one streaming stage.  The variables of the machines a specification    *)
(* does not run keep their initial values.                                 *)
(*                                                                         *)
(* A text is a sequence of characters; a character is a one-character      *)
(* string.  SANY's lexer rejects a backquote inside a string literal, so   *)
(* the character U+0060 is written by its name, BT.                        *)
(***************************************************************************)
EXTENDS Integers, Sequences, FiniteSets, TLC

VARIABLES
    text,      \* the raw reply handed to the parser (response / text)
    caller,    \* who called robust_json_parse: "direct" or a stage parser
    pc,        \* position inside robust_json_parse / the stage parser
    result,    \* the value robust_json_parse returned (JNull until then)
    by,        \* number of the strategy that returned (0: none)
    tried,     \* the strategies consulted so far, in order
    err,       \* the exception robust_json_parse raised (NoErr: none)
    named,     \* whether the feature / test point handed to the stage parser has a 'name'
    stageOut,  \* what the stage parser returned (NoOut until then)
    entry,     \* the stage function entered: "chain" (generate_chain.generate_*) or "api" (api.py endpoint)
    reply,     \* what the LLM collaborator did: "text", "null", "object" or "error"
    apiOut,    \* the response of the API endpoint (NoApiOut until then)
    escaped,   \* the exception that left the stage function ("none": none)
    client,    \* whether the global vllm_client is set (POST /api/init was made)
    max_features,                  \* request.max_features
    max_test_points_per_feature,   \* request.max_test_points_per_feature
    pipe_features,    \* run_full_pipeline's features, after the cap
    all_test_points,  \* feature index -> test points kept
    all_test_cases,   \* <<feature index, test point index>> -> test cases
    idx,              \* loop position: i in step 2, <<feature_idx, tp_idx>> in step 3
    calls,            \* the sub-calls made so far, in order, with their responses
    pipeOut,          \* the FullPipelineResponse (NoPipeOut until then)
    ready,            \* whether the streaming stage's inputs pass its guards
    chunks,           \* the chunks the provider has delivered so far, in order
    content,          \* generate_response_vllm_stream's accumulated content
    snapshots,        \* the snapshots generate_response_vllm_stream has yielded
    shown,            \* the progress outputs the streaming stage has yielded
    response_text,    \* the streaming stage's response_text
    store,            \* global_data, the store shared by the stages
    parsed,           \* the texts the stage parser was invoked on by the streaming stage
    finalShown,       \* whether the streaming stage has yielded its final result
    completed,        \* whether the provider's sequence has ended
    abandoned,        \* where the consumer abandoned the streaming stage (NoAbandon: nowhere)
    gd,               \* app.global_data, the store of the interactive session
    exported,         \* export_data as export_data_to_dict built it (NoExport until then)
    loaded,           \* vis_data as load_export_handler built it (NoExport until then)
    runs,             \* the generation requests of the session, by handler slot
    llm_calls,        \* how many times the session has invoked the LLM
    started,          \* how many generation requests have been made
    last,             \* slot -> the record list of the run that completed last on it
    failed            \* the slots whose latest generation failed

parserVars == <<text, caller, result, by, tried, err, named, stageOut>>
stageVars == <<entry, reply, apiOut, escaped>>
pipeVars ==
    <<client, max_features, max_test_points_per_feature, pipe_features, all_test_points,
      all_test_cases, idx, calls, pipeOut>>

streamVars ==
    <<ready, chunks, content, snapshots, shown, response_text, store, parsed, finalShown,
      completed, abandoned>>

runVars == <<runs, llm_calls, started, last, failed>>
sessionVars == <<gd, exported, loaded, runVars>>

vars == <<pc, parserVars, stageVars, pipeVars, streamVars, sessionVars>>

-----------------------------------------------------------------------------
(* Characters *)

BT == "backtick"
Q == "\""
BSL == "\\"
NL == "\n"

\* JSON insignificant whitespace (json.decoder.WHITESPACE: [ \t\n\r]*)
JsonWs == {" ", "\t", "\n", "\r"}

\* What str.strip() and the regex class \s remove, among the one-byte characters
PyWs == {" ", "\t", "\n", "\r", "\f"}

\* Characters json's strict string scanner rejects unescaped (control characters)
Control == {"\t", "\n", "\r", "\f"}

DigitVal == [c \in {"0", "1", "2", "3", "4", "5", "6", "7", "8", "9"} |->
               CASE c = "0" -> 0 [] c = "1" -> 1 [] c = "2" -> 2 [] c = "3" -> 3
                 [] c = "4" -> 4 [] c = "5" -> 5 [] c = "6" -> 6 [] c = "7" -> 7
                 [] c = "8" -> 8 [] c = "9" -> 9]

Digits == DOMAIN DigitVal

\* str.lower() on the letters of the fence tag (re.IGNORECASE)
Lower(c) == CASE c = "J" -> "j" [] c = "S" -> "s" [] c = "O" -> "o" [] c = "N" -> "n"
              [] OTHER -> c

-----------------------------------------------------------------------------
(* Decoded JSON values.  Every value is a record of one shape, so that any  *)
(* two values can be compared: k is the kind, s the characters of a string, *)
(* n the number, items the elements of an array, m the mapping of an object *)
(* (a function from key strings to values: key order is irrelevant and a    *)
(* repeated key keeps its last value, as in a Python dict).                 *)

JVal(k, s, n, items, m) == [k |-> k, s |-> s, n |-> n, items |-> items, m |-> m]

JNull == JVal("null", <<>>, 0, <<>>, <<>>)
JTrue == JVal("true", <<>>, 0, <<>>, <<>>)
JFalse == JVal("false", <<>>, 0, <<>>, <<>>)
JNum(n) == JVal("num", <<>>, n, <<>>, <<>>)
JStr(s) == JVal("str", s, 0, <<>>, <<>>)
JArr(items) == JVal("arr", <<>>, 0, items, <<>>)
JObj(m) == JVal("obj", <<>>, 0, <<>>, m)
JNaN == JVal("NaN", <<>>, 0, <<>>, <<>>)
JInf == JVal("Infinity", <<>>, 0, <<>>, <<>>)

\* dict[k] = v
Put(m, k, v) == [x \in (DOMAIN m) \cup {k} |-> IF x = k THEN v ELSE m[x]]

IsDict(v) == v.k = "obj"
IsList(v) == v.k = "arr"

-----------------------------------------------------------------------------
(* json.loads: a strict recursive-descent parse of a whole text.  A parse   *)
(* step returns [ok, v, p]: whether it succeeded, the value, and the index  *)
(* of the first character after it.                                         *)

Fail == [ok |-> FALSE, v |-> JNull, p |-> 0]
Done(v, p) == [ok |-> TRUE, v |-> v, p |-> p]

\* the least index of lo..hi that is in S, hi + 1 when none
FirstIn(lo, hi, S) ==
    IF \E j \in lo..hi : j \in S
    THEN CHOOSE j \in lo..hi : j \in S /\ \A k \in lo..(j - 1) : k \notin S
    ELSE hi + 1

\* the greatest index of lo..hi that is in S, lo - 1 when none
LastIn(lo, hi, S) ==
    IF \E j \in lo..hi : j \in S
    THEN CHOOSE j \in lo..hi : j \in S /\ \A k \in (j + 1)..hi : k \notin S
    ELSE lo - 1

\* WHITESPACE.match(s, i).end(): the index after the whitespace run at i
SkipWs(s, i) == FirstIn(i, Len(s), {j \in i..Len(s) : s[j] \notin JsonWs})

\* s[i:].startswith(w)
MatchAt(s, i, w) ==
    /\ i >= 1
    /\ i + Len(w) - 1 <= Len(s)
    /\ \A j \in 1..Len(w) : s[i + j - 1] = w[j]

Unescape(c) == CASE c = Q -> Q [] c = BSL -> BSL [] c = "/" -> "/"
                 [] c = "n" -> "\n" [] c = "t" -> "\t" [] c = "r" -> "\r"
                 [] c = "f" -> "\f" [] OTHER -> ""

\* json.decoder.scanstring from the character after the opening quote
RECURSIVE ScanString(_, _, _)
ScanString(s, i, acc) ==
    IF i > Len(s) THEN Fail
    ELSE IF s[i] = Q THEN Done(acc, i + 1)
    ELSE IF s[i] \in Control THEN Fail
    ELSE IF s[i] = BSL
         THEN IF i + 1 > Len(s) \/ Unescape(s[i + 1]) = "" THEN Fail
              ELSE ScanString(s, i + 2, Append(acc, Unescape(s[i + 1])))
    ELSE ScanString(s, i + 1, Append(acc, s[i]))

\* The digits from i on: [n |-> their value after acc, p |-> the index after them]
RECURSIVE ScanDigits(_, _, _)
ScanDigits(s, i, acc) ==
    IF i <= Len(s) /\ s[i] \in Digits
    THEN ScanDigits(s, i + 1, 10 * acc + DigitVal[s[i]])
    ELSE [n |-> acc, p |-> i]

RECURSIVE Pow10(_)
Pow10(e) == IF e = 0 THEN 1 ELSE 10 * Pow10(e - 1)

\* json.scanner NUMBER_RE over the unsigned integers, with an unsigned exponent:
\* (0|[1-9]\d*)([eE]\d+)?
ScanNumber(s, i) ==
    LET int == IF s[i] = "0" THEN [n |-> 0, p |-> i + 1] ELSE ScanDigits(s, i, 0)
        hasExp == /\ int.p + 1 <= Len(s)
                  /\ s[int.p] \in {"e", "E"}
                  /\ s[int.p + 1] \in Digits
        ex == ScanDigits(s, int.p + 1, 0)
    IN  IF hasExp THEN Done(JNum(int.n * Pow10(ex.n)), ex.p)
        ELSE Done(JNum(int.n), int.p)

RECURSIVE ParseValue(_, _), ParseMembers(_, _, _), ParseElements(_, _, _)

\* json.scanner.py_make_scanner._scan_once
ParseValue(s, i) ==
    IF i > Len(s) THEN Fail
    ELSE IF s[i] = Q
         THEN LET r == ScanString(s, i + 1, <<>>)
              IN  IF r.ok THEN Done(JStr(r.v), r.p) ELSE Fail
    ELSE IF s[i] = "{"
         THEN LET j == SkipWs(s, i + 1)
              IN  IF j <= Len(s) /\ s[j] = "}" THEN Done(JObj(<<>>), j + 1)
                  ELSE ParseMembers(s, j, <<>>)
    ELSE IF s[i] = "["
         THEN LET j == SkipWs(s, i + 1)
              IN  IF j <= Len(s) /\ s[j] = "]" THEN Done(JArr(<<>>), j + 1)
                  ELSE ParseElements(s, j, <<>>)
    ELSE IF MatchAt(s, i, <<"n", "u", "l", "l">>) THEN Done(JNull, i + 4)
    ELSE IF MatchAt(s, i, <<"t", "r", "u", "e">>) THEN Done(JTrue, i + 4)
    ELSE IF MatchAt(s, i, <<"f", "a", "l", "s", "e">>) THEN Done(JFalse, i + 5)
    ELSE IF s[i] \in Digits THEN ScanNumber(s, i)
    ELSE IF MatchAt(s, i, <<"N", "a", "N">>) THEN Done(JNaN, i + 3)
    ELSE IF MatchAt(s, i, <<"I", "n", "f", "i", "n", "i", "t", "y">>) THEN Done(JInf, i + 8)
    ELSE Fail

\* json.decoder.JSONObject, from the first key of a non-empty object
ParseMembers(s, i, m) ==
    IF i > Len(s) \/ s[i] # Q THEN Fail
    ELSE LET key == ScanString(s, i + 1, <<>>)
         IN  IF ~key.ok THEN Fail
             ELSE LET c == SkipWs(s, key.p)
                  IN  IF c > Len(s) \/ s[c] # ":" THEN Fail
                      ELSE LET val == ParseValue(s, SkipWs(s, c + 1))
                           IN  IF ~val.ok THEN Fail
                               ELSE LET e == SkipWs(s, val.p)
                                        m2 == Put(m, key.v, val.v)
                                    IN  IF e > Len(s) THEN Fail
                                        ELSE IF s[e] = "}" THEN Done(JObj(m2), e + 1)
                                        ELSE IF s[e] = ","
                                             THEN ParseMembers(s, SkipWs(s, e + 1), m2)
                                        ELSE Fail

\* json.decoder.JSONArray, from the first element of a non-empty array
ParseElements(s, i, items) ==
    LET val == ParseValue(s, i)
    IN  IF ~val.ok THEN Fail
        ELSE LET e == SkipWs(s, val.p)
                 items2 == Append(items, val.v)
             IN  IF e > Len(s) THEN Fail
                 ELSE IF s[e] = "]" THEN Done(JArr(items2), e + 1)
                 ELSE IF s[e] = "," THEN ParseElements(s, SkipWs(s, e + 1), items2)
                 ELSE Fail

\* json.loads(s): leading whitespace, one value, trailing whitespace, end
JsonLoads(s) ==
    LET r == ParseValue(s, SkipWs(s, 1))
    IN  IF r.ok /\ SkipWs(s, r.p) > Len(s) THEN r ELSE Fail

-----------------------------------------------------------------------------
(* String helpers of the parser: str.find, str.rfind, str.strip, slices *)

Fence == <<BT, BT, BT>>
TaggedFenceOpen == <<BT, BT, BT, "j", "s", "o", "n">>

\* s[lo-1:hi] on 1-based inclusive bounds; empty when hi < lo
Slice(s, lo, hi) == IF hi < lo THEN <<>> ELSE SubSeq(s, lo, hi)

\* s[:n]
Take(s, n) == Slice(s, 1, IF Len(s) < n THEN Len(s) ELSE n)

\* s.find(w, i-1) + 1: the first index >= i at which w occurs, 0 when none
Find(s, i, w) ==
    LET j == FirstIn(i, Len(s), {x \in i..Len(s) : MatchAt(s, x, w)})
    IN  IF j > Len(s) THEN 0 ELSE j

\* the same, comparing letters case-insensitively (re.IGNORECASE)
FindCI(s, i, w) ==
    LET hits == {x \in i..Len(s) : /\ x + Len(w) - 1 <= Len(s)
                                    /\ \A k \in 1..Len(w) : Lower(s[x + k - 1]) = w[k]}
        j == FirstIn(i, Len(s), hits)
    IN  IF j > Len(s) THEN 0 ELSE j

\* s.rfind(c) + 1 searched down from index i: the last index <= i holding c, 0 when none
RFind(s, i, c) == LastIn(1, i, {j \in 1..i : s[j] = c})

\* the regex \s* matched greedily from i: the index after the whitespace run
SkipPyWs(s, i) == FirstIn(i, Len(s), {j \in i..Len(s) : s[j] \notin PyWs})

\* the last index in lo..hi holding a non-whitespace character, lo - 1 when none
TrimEnd(s, lo, hi) == LastIn(lo, hi, {j \in lo..hi : s[j] \notin PyWs})

\* s.strip()
Strip(s) == LET lo == SkipPyWs(s, 1) IN Slice(s, lo, TrimEnd(s, lo, Len(s)))

\* s.rstrip()
RStrip(s) == Slice(s, 1, TrimEnd(s, 1, Len(s)))

-----------------------------------------------------------------------------
(* re.findall of the two fence patterns.  After an opener at p the greedy   *)
(* \s* takes the whole whitespace run, the lazy group ([\s\S]*?) then grows *)
(* until \s* followed by a fence matches: up to the whitespace run before   *)
(* the first fence at or after the group's start.  The scan resumes after   *)
(* that closing fence (matches do not overlap).                             *)

RECURSIVE FindAllBlocks(_, _, _)
FindAllBlocks(s, i, tagged) ==
    LET opener == IF tagged THEN TaggedFenceOpen ELSE Fence
        p == IF tagged THEN FindCI(s, i, opener) ELSE Find(s, i, opener)
        start == SkipPyWs(s, p + Len(opener))
        q == Find(s, start, Fence)
    IN  IF p = 0 \/ q = 0 THEN <<>>
        ELSE <<Slice(s, start, TrimEnd(s, start, q - 1))>>
                 \o FindAllBlocks(s, q + Len(Fence), tagged)

\* Faulty variant of FirstParsing: the loop keeps going and the last block that parses wins
RECURSIVE LastParsing(_, _, _)
LastParsing(blocks, k, needOpen) ==
    IF k > Len(blocks) THEN Fail
    ELSE LET cleaned == Strip(blocks[k])
             r == JsonLoads(cleaned)
             skip == needOpen /\ (cleaned = <<>> \/ cleaned[1] \notin {"{", "["})
             later == LastParsing(blocks, k + 1, needOpen)
         IN  IF later.ok THEN later ELSE IF ~skip /\ r.ok THEN r ELSE Fail

\* the for-loops over matches: the first block whose stripped content parses
\* (with needOpen, only blocks starting with an opening brace or bracket are parsed)
RECURSIVE FirstParsing(_, _, _)
FirstParsing(blocks, k, needOpen) ==
    IF k > Len(blocks) THEN Fail
    ELSE LET cleaned == Strip(blocks[k])
             r == JsonLoads(cleaned)
             skip == needOpen /\ (cleaned = <<>> \/ cleaned[1] \notin {"{", "["})
         IN  IF ~skip /\ r.ok THEN r ELSE FirstParsing(blocks, k + 1, needOpen)

-----------------------------------------------------------------------------
(* The repair passes of strategy 4: three regex substitutions, applied to   *)
(* the characters of the slice wherever they match, inside string values    *)
(* included.                                                                *)

\* the index of the first newline at or after i, Len(s) + 1 when none: where $ matches
LineEnd(s, i) == FirstIn(i, Len(s), {j \in i..Len(s) : s[j] = NL})

\* re.sub(r'//.*?$', '', s, flags=re.MULTILINE)
RECURSIVE StripLineComments(_, _)
StripLineComments(s, i) ==
    IF i > Len(s) THEN <<>>
    ELSE IF MatchAt(s, i, <<"/", "/">>) THEN StripLineComments(s, LineEnd(s, i + 2))
    ELSE <<s[i]>> \o StripLineComments(s, i + 1)

\* re.sub(r'/\*.*?\*/', '', s, flags=re.DOTALL)
RECURSIVE StripBlockComments(_, _)
StripBlockComments(s, i) ==
    LET close == Find(s, i + 2, <<"*", "/">>)
    IN  IF i > Len(s) THEN <<>>
        ELSE IF MatchAt(s, i, <<"/", "*">>) /\ close # 0
             THEN StripBlockComments(s, close + 2)
        ELSE <<s[i]>> \o StripBlockComments(s, i + 1)

\* re.sub(r',(\s*[}\]])', r'\1', s)
RECURSIVE StripTrailingCommas(_, _)
StripTrailingCommas(s, i) ==
    LET j == SkipPyWs(s, i + 1)
    IN  IF i > Len(s) THEN <<>>
        ELSE IF s[i] = "," /\ j <= Len(s) /\ s[j] \in {"}", "]"}
             THEN Slice(s, i + 1, j) \o StripTrailingCommas(s, j + 1)
        ELSE <<s[i]>> \o StripTrailingCommas(s, i + 1)

Repair(s) ==
    StripTrailingCommas(StripBlockComments(StripLineComments(s, 1), 1), 1)

-----------------------------------------------------------------------------
(* The six strategies of robust_json_parse.  Each yields [ok, v, p] as a    *)
(* parse does.                                                              *)

\* Faulty variant of IsBlank: only the empty text counts, whitespace is not stripped
IsBlankNoStrip(s) == s = <<>>

\* not text.strip()  (a str is falsy exactly when it is empty)
IsBlank(s) == Strip(s) = <<>>

\* Strategy 1: fenced blocks tagged json
TaggedFence(s) == FirstParsing(FindAllBlocks(s, 1, TRUE), 1, FALSE)

\* Strategy 2: fenced blocks, whatever follows the fence
UntaggedFence(s) == FirstParsing(FindAllBlocks(s, 1, FALSE), 1, TRUE)

\* text.find(open) and text.rfind(close) give a slice: both found, close after open
HasSlice(s, open, close) ==
    Find(s, 1, <<open>>) # 0 /\ RFind(s, Len(s), close) > Find(s, 1, <<open>>)

\* text[first:last + 1]
OuterSlice(s, open, close) == Slice(s, Find(s, 1, <<open>>), RFind(s, Len(s), close))

HasBraceSlice(s) == HasSlice(s, "{", "}")
BraceSlice(s) == OuterSlice(s, "{", "}")

\* Strategy 3: the slice from the first opening brace to the last closing brace
BraceParse(s) == IF HasBraceSlice(s) THEN JsonLoads(BraceSlice(s)) ELSE Fail

\* Strategy 4: the same slice after the repair passes
RepairedParse(s) == IF HasBraceSlice(s) THEN JsonLoads(Repair(BraceSlice(s))) ELSE Fail

\* '\n'.join(lines[:i]) for i = len(lines) .. 1, as the end index of each prefix:
\* the longest prefix ending at or before cut that ends with a closing brace
\* (after rstrip) and parses
RECURSIVE LinePrefixParse(_, _)
LinePrefixParse(s, cut) ==
    LET partial == Slice(s, 1, cut)
        stripped == RStrip(partial)
        r == JsonLoads(partial)
        nl == RFind(s, cut, NL)
    IN  IF stripped # <<>> /\ stripped[Len(stripped)] = "}" /\ r.ok THEN r
        ELSE IF nl = 0 THEN Fail
        ELSE LinePrefixParse(s, nl - 1)

\* Strategy 5: line prefixes of json_str, which by then holds the repaired slice
TruncatedParse(s) ==
    IF HasBraceSlice(s)
    THEN LinePrefixParse(Repair(BraceSlice(s)), Len(Repair(BraceSlice(s))))
    ELSE Fail

\* Strategy 6: the slice from the first opening bracket to the last closing bracket
BracketParse(s) ==
    IF HasSlice(s, "[", "]") THEN JsonLoads(OuterSlice(s, "[", "]")) ELSE Fail

\* Length of the preview of the text in the extraction error's message
PreviewLen == 200

\* Exceptions: the type, the part of the text the message embeds, and the doc
\* attribute a JSONDecodeError keeps (the document that failed to decode)
NoErr == [type |-> "none", preview |-> <<>>, doc |-> <<>>]

\* ValueError("输入文本为空")
EmptyInputError == [type |-> "ValueError", preview |-> <<>>, doc |-> <<>>]

\* Faulty variant of ExtractionError: the message embeds the whole text
ExtractionErrorWholeText(s) ==
    [type |-> "JSONDecodeError", preview |-> s, doc |-> s]

\* json.JSONDecodeError(f"... {text[:200]}...", text, 0)
ExtractionError(s) ==
    [type |-> "JSONDecodeError", preview |-> Take(s, PreviewLen), doc |-> s]

-----------------------------------------------------------------------------
(* robust_json_parse as a whole: the outcome of a call, [ok, v, by, err] *)

Returned(v, k) == [ok |-> TRUE, v |-> v, by |-> k, err |-> NoErr]
Raised(e) == [ok |-> FALSE, v |-> JNull, by |-> 0, err |-> e]

RobustJsonParse(s) ==
    IF IsBlank(s) THEN Raised(EmptyInputError)
    ELSE IF TaggedFence(s).ok THEN Returned(TaggedFence(s).v, 1)
    ELSE IF UntaggedFence(s).ok THEN Returned(UntaggedFence(s).v, 2)
    ELSE IF BraceParse(s).ok THEN Returned(BraceParse(s).v, 3)
    ELSE IF RepairedParse(s).ok THEN Returned(RepairedParse(s).v, 4)
    ELSE IF TruncatedParse(s).ok THEN Returned(TruncatedParse(s).v, 5)
    ELSE IF BracketParse(s).ok THEN Returned(BracketParse(s).v, 6)
    ELSE Raised(ExtractionError(s))

-----------------------------------------------------------------------------
(* The stage parsers: parse_features, parse_test_points, parse_test_cases *)

\* Length of the preview of the raw reply in a stage's error text
StagePreviewLen == 500

Stages == {"parse_features", "parse_test_points", "parse_test_cases"}

StageKey(stage) ==
    CASE stage = "parse_features" -> <<"f", "e", "a", "t", "u", "r", "e", "s">>
      [] stage = "parse_test_points" -> <<"t", "e", "s", "t", "_", "p", "o", "i", "n", "t", "s">>
      [] stage = "parse_test_cases" -> <<"t", "e", "s", "t", "_", "c", "a", "s", "e", "s">>

KeyId == <<"i", "d">>
KeyName == <<"n", "a", "m", "e">>
KeyTestSteps == <<"t", "e", "s", "t", "_", "s", "t", "e", "p", "s">>

\* bool(v) is False
Falsy(v) ==
    \/ v.k \in {"null", "false"}
    \/ v.k = "num" /\ v.n = 0
    \/ v.k = "str" /\ v.s = <<>>
    \/ v.k = "arr" /\ v.items = <<>>
    \/ v.k = "obj" /\ DOMAIN v.m = {}

\* len(v) is defined
HasLen(v) == v.k \in {"str", "arr", "obj"}

\* for x in v: x.get(...) runs without raising: v is a list of dicts.  (A str
\* yields its characters and a dict its keys, which have no get; anything
\* else is not iterable.)
AllDicts(v) == IsList(v) /\ \A i \in 1..Len(v.items) : IsDict(v.items[i])

\* the loop over tc.get('test_steps', []) of one test case runs without raising
StepsRender(tc) ==
    \/ KeyTestSteps \notin DOMAIN tc.m
    \/ Falsy(tc.m[KeyTestSteps])
    \/ AllDicts(tc.m[KeyTestSteps])

\* Faulty variant of StageFail: the error text quotes the whole reply
StageFailWholeReply(exc, response) ==
    [ok |-> FALSE, records |-> <<>>, exc |-> exc,
     preview |-> response,
     ellipsis |-> Len(response) > StagePreviewLen]

\* error_msg: str(e), response[:500] and '...' if len(str(response)) > 500
StageFail(exc, response) ==
    [ok |-> FALSE, records |-> <<>>, exc |-> exc,
     preview |-> Take(response, StagePreviewLen),
     ellipsis |-> Len(response) > StagePreviewLen]

StageOk(records) ==
    [ok |-> TRUE, records |-> records.items, exc |-> "none",
     preview |-> <<>>, ellipsis |-> FALSE]

NoOut == [ok |-> FALSE, records |-> <<>>, exc |-> "pending", preview |-> <<>>, ellipsis |-> FALSE]

\* The validation every stage parser starts with, given the parser's outcome
\* r: "" when the reply passes, else the exception that ends the stage
StageCheck(stage, r) ==
    IF ~r.ok THEN r.err.type
    ELSE IF ~IsDict(r.v) \/ StageKey(stage) \notin DOMAIN r.v.m THEN "ValueError: missing field"
    ELSE ""

\* parse_features(response) once robust_json_parse has ended with outcome r
ParseFeaturesOut(r, response) ==
    LET features == r.v.m[StageKey("parse_features")]
    IN  IF StageCheck("parse_features", r) # "" THEN StageFail(StageCheck("parse_features", r), response)
        ELSE IF features.k = "null" THEN StageFail("ValueError: none generated", response)
        ELSE IF ~HasLen(features) THEN StageFail("TypeError", response)
        ELSE IF Falsy(features) THEN StageFail("ValueError: none generated", response)
        ELSE IF ~AllDicts(features) THEN StageFail("AttributeError", response)
        ELSE IF \E i \in 1..Len(features.items) :
                   ~({KeyId, KeyName} \subseteq DOMAIN features.items[i].m)
             THEN StageFail("KeyError", response)
        ELSE StageOk(features)

\* Faulty variant of ParseTestPointsOut: the check for an empty value is missing
ParseTestPointsOutNoEmptyCheck(r, response, hasName) ==
    LET test_points == r.v.m[StageKey("parse_test_points")]
    IN  IF StageCheck("parse_test_points", r) # "" THEN StageFail(StageCheck("parse_test_points", r), response)
        ELSE IF ~hasName THEN StageFail("KeyError", response)
        ELSE IF test_points.k \notin {"str", "arr", "obj"} THEN StageFail("TypeError", response)
        ELSE IF ~AllDicts(test_points) THEN StageFail("AttributeError", response)
        ELSE StageOk(test_points)

\* parse_test_points(feature, response)
ParseTestPointsOut(r, response, hasName) ==
    LET test_points == r.v.m[StageKey("parse_test_points")]
    IN  IF StageCheck("parse_test_points", r) # "" THEN StageFail(StageCheck("parse_test_points", r), response)
        ELSE IF Falsy(test_points) THEN StageFail("ValueError: none generated", response)
        ELSE IF ~hasName THEN StageFail("KeyError", response)
        ELSE IF test_points.k \notin {"str", "arr", "obj"} THEN StageFail("TypeError", response)
        ELSE IF ~AllDicts(test_points) THEN StageFail("AttributeError", response)
        ELSE StageOk(test_points)

\* parse_test_cases(response, feature, test_point)
ParseTestCasesOut(r, response, hasName) ==
    LET test_cases == r.v.m[StageKey("parse_test_cases")]
    IN  IF StageCheck("parse_test_cases", r) # "" THEN StageFail(StageCheck("parse_test_cases", r), response)
        ELSE IF Falsy(test_cases) THEN StageFail("ValueError: none generated", response)
        ELSE IF ~hasName THEN StageFail("KeyError", response)
        ELSE IF test_cases.k \notin {"str", "arr", "obj"} THEN StageFail("TypeError", response)
        ELSE IF ~AllDicts(test_cases) THEN StageFail("AttributeError", response)
        ELSE IF \E i \in 1..Len(test_cases.items) : ~StepsRender(test_cases.items[i])
             THEN StageFail("AttributeError", response)
        ELSE StageOk(test_cases)

-----------------------------------------------------------------------------
(* The stage functions around the parsers: what the API endpoints answer *)

\* raw_response: Optional[str]
NoRaw == [has |-> FALSE, s |-> <<>>]
Raw(s) == [has |-> TRUE, s |-> s]

\* XxxResponse(success=True, <key>=records, raw_response=response)
ApiOk(records, response) ==
    [success |-> TRUE, records |-> records, raw |-> Raw(response), exc |-> "none",
     retained |-> <<>>]

\* XxxResponse(success=False, <key>=[], error=str(e)): raw_response keeps its
\* default None; retained is the part of the raw reply str(e) holds
ApiFail(exc, retained) ==
    [success |-> FALSE, records |-> <<>>, raw |-> NoRaw, exc |-> exc,
     retained |-> retained]

NoApiOut == [success |-> FALSE, records |-> <<>>, raw |-> NoRaw, exc |-> "pending", retained |-> <<>>]

\* the part of the raw reply the message of the parser's exception holds: the
\* extraction error quotes text[:200], the empty-input error nothing
ErrQuote(e) == IF e.type = "JSONDecodeError" THEN e.preview ELSE <<>>

\* The endpoint's try block from robust_json_parse(response) on, given the
\* parser's outcome r: result.get(<key>, []) needs a mapping, and the response
\* model (List[dict]) validates what it found
ApiResponse(stage, r, response) ==
    IF ~r.ok THEN ApiFail(r.err.type, ErrQuote(r.err))
    ELSE IF ~IsDict(r.v) THEN ApiFail("AttributeError", <<>>)
    ELSE IF StageKey(stage) \notin DOMAIN r.v.m THEN ApiOk(<<>>, response)
    ELSE IF ~AllDicts(r.v.m[StageKey(stage)]) THEN ApiFail("ValidationError", <<>>)
    ELSE ApiOk(r.v.m[StageKey(stage)].items, response)

\* the endpoint of a stage on the reply text t
EndpointOn(stage, t) == ApiResponse(stage, RobustJsonParse(t), t)

\* 'AIMessage' object has no attribute 'strip'
NoStripError == [type |-> "AttributeError", preview |-> <<>>, doc |-> <<>>]

\* the stage parser of a stage
StageParserOut(stage, r, response, hasName) ==
    CASE stage = "parse_features" -> ParseFeaturesOut(r, response)
      [] stage = "parse_test_points" -> ParseTestPointsOut(r, response, hasName)
      [] stage = "parse_test_cases" -> ParseTestCasesOut(r, response, hasName)

-----------------------------------------------------------------------------
(* The replies the model feeds the parser.  Each family is built from named  *)
(* pieces, so that a property can speak of the pieces a reply was built      *)
(* from.  In the comments <fence> stands for three backquotes.               *)

\* {"a":1}
ObjA == <<"{", Q, "a", Q, ":", "1", "}">>

\* {"b":2}
ObjB == <<"{", Q, "b", Q, ":", "2", "}">>

\* {"a":[1],"b":{"c":null}}
ObjNested ==
    <<"{", Q, "a", Q, ":", "[", "1", "]", ",", Q, "b", Q, ":", "{", Q, "c", Q, ":", "n",
    "u", "l", "l", "}", "}">>

\* {}
ObjEmpty == <<"{", "}">>

\* [1]
Arr1 == <<"[", "1", "]">>

\* []
ArrEmpty == <<"[", "]">>

\* [{"a":1}]
ArrObj1 == <<"[", "{", Q, "a", Q, ":", "1", "}", "]">>

\* [{"a":1},{"b":2}]
ArrObj2 == <<"[", "{", Q, "a", Q, ":", "1", "}", ",", "{", Q, "b", Q, ":", "2", "}", "]">>

\* [{"a":1}\n,{"b":2}]
ArrObjLines ==
    <<"[", "{", Q, "a", Q, ":", "1", "}", NL, ",", "{", Q, "b", Q, ":", "2", "}", "]">>

\* {"a":"<fence>"}
ObjFenceInString == <<"{", Q, "a", Q, ":", Q, BT, BT, BT, Q, "}">>

\* 1
Num1 == <<"1">>

\* null
LitNull == <<"n", "u", "l", "l">>

\* "s"
StrS == <<Q, "s", Q>>

\* {bad
BadObj == <<"{", "b", "a", "d">>

\* json
TagJson == <<"j", "s", "o", "n">>

\* JSON
TagJsonUpper == <<"J", "S", "O", "N">>

\* ok: 
ProseOk == <<"o", "k", ":", " ">>

\* x\n
ProseLine == <<"x", NL>>

\* {x} 
ProseBraces == <<"{", "x", "}", " ">>

\*  [y]
ProseBrackets == <<" ", "[", "y", "]">>

\* { 
ProseOpen == <<"{", " ">>

\*  }
ProseClose == <<" ", "}">>

\* a fenced block: the fence, a tag (or none), the content on its own lines, the fence
Fenced(tag, c) == Fence \o tag \o <<NL>> \o c \o <<NL>> \o Fence

\* Family 1: a JSON object or array inside prose, no fences
EmbedProse == {<<>>, ProseOk, ProseLine, ProseBraces, ProseBrackets, ProseClose}

EmbedPayloads == {ObjA, ObjNested, ObjEmpty, Arr1, ArrEmpty, ArrObj1, ArrObj2, ArrObjLines}

EmbeddedReplies == {p \o v \o s : p \in EmbedProse, v \in EmbedPayloads, s \in EmbedProse}

\* Family 2: prefix, a block tagged json holding a valid payload, suffix
FenceProse ==
    {<<>>, ProseOk, ProseOpen, ProseClose,
     Fenced(TagJson, Arr1) \o <<NL>>, <<NL>> \o Fenced(<<>>, ObjB)}

FencePayloads == {ObjA, Arr1, ArrObj2, Num1, LitNull, StrS, ObjFenceInString}

FencedReplies ==
    {p \o Fenced(TagJson, v) \o s : p \in FenceProse, v \in FencePayloads, s \in FenceProse}
        \cup {Fenced(TagJsonUpper, v) : v \in FencePayloads}
        \cup {Fence \o TagJson \o v \o Fence : v \in FencePayloads}
        \cup {Fenced(<<>>, v) : v \in FencePayloads}

\* Family 3: several blocks tagged json, one after the other
MaxBlocks == 3

BlockContents == {ObjA, Arr1, ObjNested, BadObj}

\* the sequences of at most n block contents
RECURSIVE BlockSeqs(_)
BlockSeqs(n) ==
    IF n = 0 THEN {<<>>}
    ELSE LET shorter == BlockSeqs(n - 1)
         IN  shorter \cup {Append(cs, c) : cs \in {x \in shorter : Len(x) = n - 1},
                                           c \in BlockContents}

RECURSIVE JoinBlocks(_)
JoinBlocks(cs) ==
    IF cs = <<>> THEN <<>>
    ELSE Fenced(TagJson, Head(cs)) \o <<NL>> \o JoinBlocks(Tail(cs))

MultiBlockReplies == {ProseOk \o JoinBlocks(cs) : cs \in BlockSeqs(MaxBlocks) \ {<<>>}}

\* Family 4: an object, and the same object with one comma put before a
\* closing brace or bracket.  A case is <<head, tail>>: head \o tail is the
\* valid object, head \o "," \o tail the one with the trailing comma.
\* {"a":1 , }
CommaPlain ==
    << <<"{", Q, "a", Q, ":", "1">>,
       <<"}">> >>

\* {"a":[1 , ]}
CommaArray ==
    << <<"{", Q, "a", Q, ":", "[", "1">>,
       <<"]", "}">> >>

\* {"a":[1] , \n}
CommaNewline ==
    << <<"{", Q, "a", Q, ":", "[", "1", "]">>,
       <<NL, "}">> >>

\* {"a":{"b":1 ,  },"c":2}
CommaInner ==
    << <<"{", Q, "a", Q, ":", "{", Q, "b", Q, ":", "1">>,
       <<" ", "}", ",", Q, "c", Q, ":", "2", "}">> >>

\* {"a":",}" , }
CommaStrBrace ==
    << <<"{", Q, "a", Q, ":", Q, ",", "}", Q>>,
       <<"}">> >>

\* {"a":",]" , }
CommaStrBracket ==
    << <<"{", Q, "a", Q, ":", Q, ",", "]", Q>>,
       <<"}">> >>

\* {"a":"//x" , }
CommaStrSlashes ==
    << <<"{", Q, "a", Q, ":", Q, "/", "/", "x", Q>>,
       <<"}">> >>

CommaCases ==
    {CommaPlain, CommaArray, CommaNewline, CommaInner,
     CommaStrBrace, CommaStrBracket, CommaStrSlashes}

WithComma(c) == c[1] \o <<",">> \o c[2]
WithoutComma(c) == c[1] \o c[2]

CommaReplies == {WithComma(c) : c \in CommaCases} \cup {WithoutComma(c) : c \in CommaCases}

\* Family 5: a valid object written over several lines, cut after each of its lines
\* lines: {"a":1, | "b":2 | }
LinesFlat ==
    <<
      <<"{", Q, "a", Q, ":", "1", ",">>,
      <<Q, "b", Q, ":", "2">>,
      <<"}">>
    >>

\* lines: {"a":{"b":1}, | "c":[1]}
LinesNested ==
    <<
      <<"{", Q, "a", Q, ":", "{", Q, "b", Q, ":", "1", "}", ",">>,
      <<Q, "c", Q, ":", "[", "1", "]", "}">>
    >>

\* lines: {"a":[ | {"b":1}, | {"c":2} | ]}
LinesArray ==
    <<
      <<"{", Q, "a", Q, ":", "[">>,
      <<"{", Q, "b", Q, ":", "1", "}", ",">>,
      <<"{", Q, "c", Q, ":", "2", "}">>,
      <<"]", "}">>
    >>

\* lines: {"a":"<fence>json [1] <fence>", | "b":1} |  
LinesFenceInString ==
    <<
      <<"{", Q, "a", Q, ":", Q, BT, BT, BT, "j", "s", "o", "n", " ", "[", "1", "]", " ", BT, BT, BT, Q, ",">>,
      <<Q, "b", Q, ":", "1", "}">>,
      <<" ">>
    >>

\* lines: { | "a":1 | } | 
LinesTrailingBlank ==
    <<
      <<"{">>,
      <<Q, "a", Q, ":", "1">>,
      <<"}">>,
      <<>>
    >>

MultiLineObjects ==
    {LinesFlat, LinesNested, LinesArray, LinesFenceInString, LinesTrailingBlank}

\* '\n'.join(lines)
RECURSIVE JoinLines(_)
JoinLines(ls) ==
    IF ls = <<>> THEN <<>>
    ELSE IF Len(ls) = 1 THEN ls[1]
    ELSE ls[1] \o <<NL>> \o JoinLines(Tail(ls))

\* the first k lines of ls
CutAfter(ls, k) == JoinLines(SubSeq(ls, 1, k))

CutReplies == UNION {{CutAfter(ls, k) : k \in 1..Len(ls)} : ls \in MultiLineObjects}

\* Family 6: replies that need a repair or that break off after a complete object
\* {"a":1 // c\n}
RaggedLineComment == <<"{", Q, "a", Q, ":", "1", " ", "/", "/", " ", "c", NL, "}">>

\* {"a":1 /* c */}
RaggedBlockComment ==
    <<"{", Q, "a", Q, ":", "1", " ", "/", "*", " ", "c", " ", "*", "/", "}">>

\* {"a":1}\n{"b":
RaggedSecondObject == <<"{", Q, "a", Q, ":", "1", "}", NL, "{", Q, "b", Q, ":">>

\* {"a":1}\n}
RaggedExtraBrace == <<"{", Q, "a", Q, ":", "1", "}", NL, "}">>

\* {"a":"//"}\n}
RaggedSlashes == <<"{", Q, "a", Q, ":", Q, "/", "/", Q, "}", NL, "}">>

\* {"a":1}\n{"b":2}
RaggedTwoObjects == <<"{", Q, "a", Q, ":", "1", "}", NL, "{", Q, "b", Q, ":", "2", "}">>

\* {"a":1} // c\n{"b":2,\n}
RaggedCommentThenCut ==
    <<"{", Q, "a", Q, ":", "1", "}", " ", "/", "/", " ", "c", NL, "{", Q, "b", Q, ":", "2",
    ",", NL, "}">>

\* <fence>json\n[1]\n<fence> {"a":1}
RaggedFenceThenObject ==
    <<BT, BT, BT, "j", "s", "o", "n", NL, "[", "1", "]", NL, BT, BT, BT, " ", "{", Q, "a",
    Q, ":", "1", "}">>

\* {"a":1 [1]
RaggedObjectThenArray == <<"{", Q, "a", Q, ":", "1", " ", "[", "1", "]">>

\* <fence>\nsee\n<fence>\n<fence>\n[1]\n<fence>
RaggedUntaggedProse ==
    <<BT, BT, BT, NL, "s", "e", "e", NL, BT, BT, BT, NL, BT, BT, BT, NL, "[", "1", "]", NL,
    BT, BT, BT>>

RaggedReplies ==
    {RaggedLineComment, RaggedBlockComment, RaggedSecondObject,
     RaggedExtraBrace, RaggedSlashes, RaggedTwoObjects,
     RaggedCommentThenCut, RaggedFenceThenObject, RaggedObjectThenArray,
     RaggedUntaggedProse}

\* Family 7: empty and whitespace-only replies
BlankReplies == {<<>>, <<" ">>, <<NL>>, <<" ", NL, "\t", " ">>}

\* Family 8: replies no strategy decodes, among them long ones around the
\* lengths of the two previews
MaxOver == 1

\* n times the letter x
Long(n) == [i \in 1..n |-> "x"]

GarbageReplies ==
    {<<"x", "y", "z">>, BadObj, <<"[", "1">>, <<"}", " ", "{">>}
        \cup {Long(n) : n \in (PreviewLen - 1)..(PreviewLen + MaxOver)}
        \cup {Long(n) : n \in (StagePreviewLen - 1)..(StagePreviewLen + MaxOver)}
        \cup {Long(StagePreviewLen) \o Arr1}

\* Family 9: replies to the three stages: one object with one key
Str(s) == <<Q>> \o s \o <<Q>>
StageReply(key, v) == <<"{">> \o Str(key) \o <<":">> \o v \o <<"}">>

\* [{"id":1,"name":"a"}]
RecFull ==
    <<"[", "{", Q, "i", "d", Q, ":", "1", ",", Q, "n", "a", "m", "e", Q, ":", Q, "a", Q,
    "}", "]">>

\* [{"id":1,"name":"a"},{"name":"b","id":2}]
RecTwo ==
    <<"[", "{", Q, "i", "d", Q, ":", "1", ",", Q, "n", "a", "m", "e", Q, ":", Q, "a", Q,
    "}", ",", "{", Q, "n", "a", "m", "e", Q, ":", Q, "b", Q, ",", Q, "i", "d", Q, ":", "2",
    "}", "]">>

\* [{"id":1}]
RecNoName == <<"[", "{", Q, "i", "d", Q, ":", "1", "}", "]">>

\* [{}]
RecBare == <<"[", "{", "}", "]">>

\* [{"id":1,"name":"a","test_steps":[{"step":1}]}]
RecSteps ==
    <<"[", "{", Q, "i", "d", Q, ":", "1", ",", Q, "n", "a", "m", "e", Q, ":", Q, "a", Q,
    ",", Q, "t", "e", "s", "t", "_", "s", "t", "e", "p", "s", Q, ":", "[", "{", Q, "s",
    "t", "e", "p", Q, ":", "1", "}", "]", "}", "]">>

\* [{"test_steps":"s"}]
RecStepsText ==
    <<"[", "{", Q, "t", "e", "s", "t", "_", "s", "t", "e", "p", "s", Q, ":", Q, "s", Q,
    "}", "]">>

\* [{"test_steps":[1]}]
RecStepsNumbers ==
    <<"[", "{", Q, "t", "e", "s", "t", "_", "s", "t", "e", "p", "s", Q, ":", "[", "1", "]",
    "}", "]">>

\* [{"test_steps":[]}]
RecStepsEmpty ==
    <<"[", "{", Q, "t", "e", "s", "t", "_", "s", "t", "e", "p", "s", Q, ":", "[", "]", "}",
    "]">>

\* [1]
ValNumbers == <<"[", "1", "]">>

\* []
ValEmptyList == <<"[", "]">>

\* null
ValNull == <<"n", "u", "l", "l">>

\* {}
ValEmptyDict == <<"{", "}">>

\* {"a":1}
ValDict == <<"{", Q, "a", Q, ":", "1", "}">>

\* ""
ValEmptyStr == <<Q, Q>>

\* "s"
ValStr == <<Q, "s", Q>>

\* 1
ValOne == <<"1">>

\* 0
ValZero == <<"0">>

\* true
ValTrue == <<"t", "r", "u", "e">>

StageValues ==
    {RecFull, RecTwo, RecNoName, RecBare, RecSteps, RecStepsText,
     RecStepsNumbers, RecStepsEmpty, ValNumbers, ValEmptyList, ValNull, ValEmptyDict,
     ValDict, ValEmptyStr, ValStr, ValOne, ValZero, ValTrue}

StageReplies ==
    {StageReply(StageKey(st), v) : st \in Stages, v \in StageValues}
        \cup {Fenced(TagJson, StageReply(StageKey(st), RecFull)) : st \in Stages}
        \cup {StageReply(<<"o", "t", "h", "e", "r">>, RecFull), RecFull, ObjEmpty}

\* Family 10: a valid object with one comment put in: <<before, comment, after>>
\* {"a":1 | // c | \n}
CommentLine ==
    << <<"{", Q, "a", Q, ":", "1", " ">>,
       <<"/", "/", " ", "c">>,
       <<NL, "}">> >>

\* {"a":1 | /* c */ | }
CommentBlock ==
    << <<"{", Q, "a", Q, ":", "1", " ">>,
       <<"/", "*", " ", "c", " ", "*", "/">>,
       <<"}">> >>

\* {"a":"//x", | // c | \n"b":1}
CommentLineStrSlashes ==
    << <<"{", Q, "a", Q, ":", Q, "/", "/", "x", Q, ",", " ">>,
       <<"/", "/", " ", "c">>,
       <<NL, Q, "b", Q, ":", "1", "}">> >>

\* {"a":"/*x*/" | /* c */ | }
CommentBlockStrStars ==
    << <<"{", Q, "a", Q, ":", Q, "/", "*", "x", "*", "/", Q, " ">>,
       <<"/", "*", " ", "c", " ", "*", "/">>,
       <<"}">> >>

\* {"a":"p://x" | /* c */ | }
CommentBlockStrUrl ==
    << <<"{", Q, "a", Q, ":", Q, "p", ":", "/", "/", "x", Q, " ">>,
       <<"/", "*", " ", "c", " ", "*", "/">>,
       <<"}">> >>

CommentCases ==
    {CommentLine, CommentBlock, CommentLineStrSlashes, CommentBlockStrStars,
     CommentBlockStrUrl}

WithComment(c) == c[1] \o c[2] \o c[3]
WithoutComment(c) == c[1] \o c[3]

CommentReplies == {WithComment(c) : c \in CommentCases}

Texts ==
    EmbeddedReplies \cup FencedReplies \cup MultiBlockReplies \cup CommaReplies
        \cup CutReplies \cup RaggedReplies \cup BlankReplies \cup GarbageReplies
        \cup StageReplies \cup CommentReplies

-----------------------------------------------------------------------------
(* The state machine: one call of robust_json_parse on a reply, made        *)
(* directly or by a stage parser, which then validates the outcome.         *)


\* Optional[int]: None, or an integer
NoneInt == [some |-> FALSE, n |-> 0]
SomeInt(n) == [some |-> TRUE, n |-> n]

\* FullPipelineResponse
NoPipeOut ==
    [success |-> FALSE, features |-> <<>>, test_points |-> <<>>, test_cases |-> <<>>,
     error |-> "pending"]

\* run_full_pipeline has not been called
PipelineIdle ==
    /\ client = TRUE
    /\ max_features = NoneInt
    /\ max_test_points_per_feature = NoneInt
    /\ pipe_features = <<>>
    /\ all_test_points = <<>>
    /\ all_test_cases = <<>>
    /\ idx = <<>>
    /\ calls = <<>>
    /\ pipeOut = NoPipeOut

\* global_data as an earlier run left it; each stage writes its own slot
OldRecords == <<JStr(<<"o", "l", "d">>)>>
OldStore ==
    [prd_text |-> "old", features |-> OldRecords, test_points |-> OldRecords,
     test_cases |-> OldRecords]

NoAbandon == [at |-> "none", n |-> 0]

\* no streaming stage has been started
StreamIdle ==
    /\ ready = TRUE
    /\ chunks = <<>>
    /\ content = <<>>
    /\ snapshots = <<>>
    /\ shown = <<>>
    /\ response_text = <<>>
    /\ store = OldStore
    /\ parsed = <<>>
    /\ finalShown = FALSE
    /\ completed = FALSE
    /\ abandoned = NoAbandon

\* no stage function has been entered
StageIdle ==
    /\ entry = "none"
    /\ reply = "pending"
    /\ apiOut = NoApiOut
    /\ escaped = "none"

\* the parser has not been called
ParserIdle ==
    /\ caller = "none"
    /\ result = JNull
    /\ by = 0
    /\ tried = <<>>
    /\ err = NoErr
    /\ named = TRUE
    /\ stageOut = NoOut

\* no export has been made or loaded
NoExport == [test_points |-> <<>>, test_cases |-> <<>>]

\* global_data as app.py creates it (document_id and document_display_name,
\* which no stage reads, are left out)
EmptyStore == [prd_text |-> <<>>, features |-> <<>>, test_points |-> <<>>, test_cases |-> <<>>]

\* the interactive session has not begun
SessionIdle ==
    /\ gd = EmptyStore
    /\ exported = NoExport
    /\ loaded = NoExport
    /\ runs = <<>>
    /\ llm_calls = 0
    /\ started = 0
    /\ last = <<>>
    /\ failed = {}

\* what the stage machine and the parser machine leave alone
outsideStage == <<pipeVars, streamVars, sessionVars>>
outside == <<stageVars, outsideStage>>

Init ==
    /\ text \in Texts
    /\ caller = "none"
    /\ pc = "idle"
    /\ result = JNull
    /\ by = 0
    /\ tried = <<>>
    /\ err = NoErr
    /\ named = TRUE
    /\ stageOut = NoOut
    /\ StageIdle
    /\ PipelineIdle
    /\ StreamIdle
    /\ SessionIdle

\* robust_json_parse(text) is called, by a test or caller of the parser itself
\* or by a stage parser (whose feature / test point has a 'name' or not)
Call ==
    /\ pc = "idle"
    /\ \E c \in {"direct"} \cup Stages, n \in BOOLEAN :
          /\ n = FALSE => c \in {"parse_test_points", "parse_test_cases"}
          /\ caller' = c
          /\ named' = n
    /\ pc' = "check"
    /\ UNCHANGED <<text, result, by, tried, err, stageOut, outside>>

\* if not text or not text.strip(): raise ValueError
CheckEmpty ==
    /\ pc = "check"
    /\ IF IsBlank(text)
       THEN pc' = "raised" /\ err' = EmptyInputError
       ELSE pc' = "s1" /\ err' = err
    /\ UNCHANGED <<text, caller, result, by, tried, named, stageOut, outside>>

\* One strategy step: strategy k is consulted with outcome r; it returns when
\* r parsed, else control falls to position next
Step(k, r, next) ==
    /\ tried' = Append(tried, k)
    /\ IF r.ok
       THEN pc' = "returned" /\ result' = r.v /\ by' = k
       ELSE pc' = next /\ result' = result /\ by' = by
    /\ UNCHANGED <<text, caller, err, named, stageOut, outside>>

TryTaggedFence == pc = "s1" /\ Step(1, TaggedFence(text), "s2")

TryUntaggedFence == pc = "s2" /\ Step(2, UntaggedFence(text), "s3")

\* Faulty variant of TryBraceSlice: a failed slice falls straight to the bracket slice
TryBraceSliceSkipRepair == pc = "s3" /\ Step(3, BraceParse(text), "s6")

\* without a brace slice strategies 3 to 5 do not apply
TryBraceSlice ==
    /\ pc = "s3"
    /\ Step(3, BraceParse(text), IF HasBraceSlice(text) THEN "s4" ELSE "s6")

TryRepair == pc = "s4" /\ Step(4, RepairedParse(text), "s5")

TryTruncated == pc = "s5" /\ Step(5, TruncatedParse(text), "s6")

TryBracketSlice == pc = "s6" /\ Step(6, BracketParse(text), "fail")

\* raise json.JSONDecodeError(...)
RaiseExtraction ==
    /\ pc = "fail"
    /\ pc' = "raised"
    /\ err' = ExtractionError(text)
    /\ UNCHANGED <<text, caller, result, by, tried, named, stageOut, outside>>

\* the outcome of the call of robust_json_parse, once it has ended
Outcome == IF pc = "returned" THEN Returned(result, by) ELSE Raised(err)

StageEnd(stage, out) ==
    /\ pc \in {"returned", "raised"}
    /\ caller = stage
    /\ stageOut' = out
    /\ pc' = "stage_done"
    /\ UNCHANGED <<text, caller, result, by, tried, err, named, outside>>

ParseFeatures == StageEnd("parse_features", ParseFeaturesOut(Outcome, text))

ParseTestPoints == StageEnd("parse_test_points", ParseTestPointsOut(Outcome, text, named))

ParseTestCases == StageEnd("parse_test_cases", ParseTestCasesOut(Outcome, text, named))

Next ==
    \/ Call
    \/ CheckEmpty
    \/ TryTaggedFence
    \/ TryUntaggedFence
    \/ TryBraceSlice
    \/ TryRepair
    \/ TryTruncated
    \/ TryBracketSlice
    \/ RaiseExtraction
    \/ ParseFeatures
    \/ ParseTestPoints
    \/ ParseTestCases

Spec == Init /\ [][Next]_vars

-----------------------------------------------------------------------------
(* The stage machine: one call of a stage function, generate_features,      *)
(* generate_test_points or generate_test_cases of generate_chain.py (entry  *)
(* "chain") or the endpoint of the same stage in api.py (entry "api").  The *)
(* stage is named by its parser.                                            *)

\* {"<key>":v,}: a stage reply with a trailing comma
StageReplyComma(key, v) == <<"{">> \o Str(key) \o <<":">> \o v \o <<",", "}">>

\* a stage reply followed by a second object on the next line
StageReplyThenMore(key, v) == StageReply(key, v) \o <<NL>> \o ObjA

\* the replies a stage is tried on
StageTexts ==
    StageReplies \cup GarbageReplies \cup BlankReplies \cup {Arr1, ArrObj1, ObjA}
        \cup {StageReplyComma(StageKey(st), RecFull) : st \in Stages}
        \cup {StageReplyThenMore(StageKey(st), RecFull) : st \in Stages}

\* what the LLM collaborator can do: return text, return None
\* (message.content of a reply without content), return an object that is
\* not text (generate_response hands back llm.invoke's message), or raise
ReplyKinds == {"text", "null", "object", "error"}

InitStage ==
    /\ text \in StageTexts
    /\ pc = "idle"
    /\ ParserIdle
    /\ StageIdle
    /\ PipelineIdle
    /\ StreamIdle
    /\ SessionIdle

\* a stage function is called with a feature / test point that has a 'name' or not
Enter ==
    /\ pc = "idle"
    /\ \E e \in {"chain", "api"}, st \in Stages, n \in BOOLEAN :
          /\ n = FALSE => st # "parse_features"
          /\ entry' = e
          /\ caller' = st
          /\ named' = n
    /\ pc' = "template"
    /\ UNCHANGED <<text, result, by, tried, err, stageOut, reply, apiOut, escaped, outsideStage>>

\* Exception exc is raised in the body of the stage function: the functions
\* of generate_chain.py have no handler around their body, the endpoints
\* answer success=False with error=str(e)
Leave(exc) ==
    IF entry = "chain"
    THEN escaped' = exc /\ pc' = "escaped" /\ apiOut' = apiOut
    ELSE apiOut' = ApiFail(exc, <<>>) /\ pc' = "api_done" /\ escaped' = escaped

\* load_prompt_template twice, then template.format(...): the file may be
\* missing; generate_chain.py reads feature["name"], api.py feature.get("name", "")
LoadTemplates ==
    /\ pc = "template"
    /\ \E found \in BOOLEAN :
          IF ~found THEN Leave("FileNotFoundError")
          ELSE IF entry = "chain" /\ ~named THEN Leave("KeyError")
          ELSE pc' = "llm" /\ UNCHANGED <<apiOut, escaped>>
    /\ UNCHANGED <<parserVars, entry, reply, outsideStage>>

\* generate_response_vllm / generate_response
AskLLM ==
    /\ pc = "llm"
    /\ \E k \in ReplyKinds :
          /\ k = "object" => entry = "chain"
          /\ reply' = k
          /\ IF k = "error"
             THEN Leave("APIConnectionError")
             ELSE /\ pc' = (IF k = "text" THEN "check" ELSE "check_other")
                  /\ UNCHANGED <<apiOut, escaped>>
    /\ UNCHANGED <<parserVars, entry, outsideStage>>

\* robust_json_parse(response) on a reply that is not text: None is falsy, so
\* the empty check raises ValueError; any other object is truthy and has no
\* strip()
CheckOther ==
    /\ pc = "check_other"
    /\ err' = (IF reply = "null" THEN EmptyInputError ELSE NoStripError)
    /\ pc' = "raised"
    /\ UNCHANGED <<text, caller, result, by, tried, named, stageOut, outside>>

\* return parse_xxx(response).  On a reply that is not text the handler of
\* the stage parser evaluates response[:500], which raises TypeError
FinishChain ==
    /\ pc \in {"returned", "raised"}
    /\ entry = "chain"
    /\ IF reply = "text"
       THEN /\ stageOut' = StageParserOut(caller, Outcome, text, named)
            /\ pc' = "stage_done"
            /\ escaped' = escaped
       ELSE /\ escaped' = "TypeError"
            /\ pc' = "escaped"
            /\ stageOut' = stageOut
    /\ UNCHANGED <<text, caller, result, by, tried, err, named, entry, reply, apiOut, outsideStage>>

\* result = robust_json_parse(response); records = result.get(<key>, []);
\* return XxxResponse(...), all inside the endpoint's try block
FinishApi ==
    /\ pc \in {"returned", "raised"}
    /\ entry = "api"
    /\ apiOut' = ApiResponse(caller, Outcome, text)
    /\ pc' = "api_done"
    /\ UNCHANGED <<parserVars, entry, reply, escaped, outsideStage>>

\* between the LLM call and the end of the stage robust_json_parse runs,
\* step by step as in Spec
NextStage ==
    \/ Enter
    \/ LoadTemplates
    \/ AskLLM
    \/ CheckOther
    \/ CheckEmpty
    \/ TryTaggedFence
    \/ TryUntaggedFence
    \/ TryBraceSlice
    \/ TryRepair
    \/ TryTruncated
    \/ TryBracketSlice
    \/ RaiseExtraction
    \/ FinishChain
    \/ FinishApi

SpecStage == InitStage /\ [][NextStage]_vars

-----------------------------------------------------------------------------
(* The pipeline machine: one request to POST /api/full-pipeline             *)
(* (api.run_full_pipeline).  Each sub-call is a whole call of the stage's   *)
(* endpoint, on a reply of the LLM or on a transport error.                 *)

\* the largest cap a request supplies
MaxCap == 2

\* the values of max_features and max_test_points_per_feature
Caps == {NoneInt} \cup {SomeInt(k) : k \in 0..MaxCap}

\* seq[:n]
Prefix(seq, n) ==
    IF n >= 0
    THEN SubSeq(seq, 1, IF n < Len(seq) THEN n ELSE Len(seq))
    ELSE SubSeq(seq, 1, IF Len(seq) + n > 0 THEN Len(seq) + n ELSE 0)

\* if request.max_xxx: seq = seq[:request.max_xxx]
Capped(seq, m) == IF m.some /\ m.n # 0 THEN Prefix(seq, m.n) ELSE seq

\* the replies of the LLM to the sub-calls of a stage: two records, one
\* record, no record, and text no strategy decodes
PipelineReplies(stage) ==
    CASE stage = "parse_features" ->
            {StageReply(StageKey(stage), RecTwo), StageReply(StageKey(stage), RecFull),
             ObjEmpty, <<"x", "y", "z">>}
      [] stage = "parse_test_points" ->
            {StageReply(StageKey(stage), RecTwo), StageReply(StageKey(stage), RecFull),
             StageReply(StageKey(stage), ValEmptyList), <<"x", "y", "z">>}
      [] stage = "parse_test_cases" ->
            {StageReply(StageKey(stage), RecSteps), <<"x", "y", "z">>}

\* what a sub-call can answer
SubCallResponses(stage) ==
    {EndpointOn(stage, t) : t \in PipelineReplies(stage)}
        \cup {ApiFail("APIConnectionError", <<>>)}

SubCall(stage, at, resp) == [stage |-> stage, at |-> at, resp |-> resp]

InitPipeline ==
    /\ text = <<>>
    /\ pc = "p_entry"
    /\ ParserIdle
    /\ StageIdle
    /\ client \in BOOLEAN
    /\ max_features \in Caps
    /\ max_test_points_per_feature \in Caps
    /\ pipe_features = <<>>
    /\ all_test_points = <<>>
    /\ all_test_cases = <<>>
    /\ idx = <<>>
    /\ calls = <<>>
    /\ pipeOut = NoPipeOut
    /\ StreamIdle
    /\ SessionIdle

\* if not vllm_client: raise HTTPException(status_code=400, ...)
PipelineEntry ==
    /\ pc = "p_entry"
    /\ pc' = (IF client THEN "p_features" ELSE "p_http400")
    /\ UNCHANGED <<sessionVars, streamVars, parserVars, stageVars, pipeVars>>

\* Faulty variant of PipelineFeatures: a failed extraction goes on with no
\* feature instead of returning the failure
PipelineFeaturesContinue ==
    /\ pc = "p_features"
    /\ \E resp \in SubCallResponses("parse_features") :
          /\ calls' = Append(calls, SubCall("parse_features", <<>>, resp))
          /\ pipe_features' = Capped(resp.records, max_features)
          /\ idx' = <<0>>
          /\ pc' = "p_points"
          /\ pipeOut' = pipeOut
    /\ UNCHANGED <<sessionVars, streamVars, parserVars, stageVars, client, max_features,
                   max_test_points_per_feature, all_test_points, all_test_cases>>

\* Step 1: features_response = await extract_features(...)
PipelineFeatures ==
    /\ pc = "p_features"
    /\ \E resp \in SubCallResponses("parse_features") :
          /\ calls' = Append(calls, SubCall("parse_features", <<>>, resp))
          /\ IF ~resp.success
             THEN /\ pipeOut' = [NoPipeOut EXCEPT !.error = resp.exc]
                  /\ pc' = "p_done"
                  /\ UNCHANGED <<pipe_features, idx>>
             ELSE /\ pipe_features' = Capped(resp.records, max_features)
                  /\ idx' = <<0>>
                  /\ pc' = "p_points"
                  /\ pipeOut' = pipeOut
    /\ UNCHANGED <<sessionVars, streamVars, parserVars, stageVars, client, max_features,
                   max_test_points_per_feature, all_test_points, all_test_cases>>

\* Faulty variant of PipelinePoints: a failed sub-call ends the pipeline
PipelinePointsAbort ==
    /\ pc = "p_points"
    /\ idx[1] < Len(pipe_features)
    /\ \E resp \in SubCallResponses("parse_test_points") :
          /\ calls' = Append(calls, SubCall("parse_test_points", idx, resp))
          /\ IF resp.success
             THEN /\ all_test_points' =
                         (idx[1] :> Capped(resp.records, max_test_points_per_feature))
                             @@ all_test_points
                  /\ idx' = <<idx[1] + 1>>
                  /\ UNCHANGED <<pc, pipeOut>>
             ELSE /\ pipeOut' = [NoPipeOut EXCEPT !.error = resp.exc]
                  /\ pc' = "p_done"
                  /\ UNCHANGED <<all_test_points, idx>>
    /\ UNCHANGED <<sessionVars, streamVars, parserVars, stageVars, client, max_features,
                   max_test_points_per_feature, pipe_features, all_test_cases>>

\* Faulty variant of PipelinePoints: the test points are stored under the
\* feature's number (position + 1) instead of its position
PipelinePointsKeyById ==
    /\ pc = "p_points"
    /\ idx[1] < Len(pipe_features)
    /\ \E resp \in SubCallResponses("parse_test_points") :
          /\ calls' = Append(calls, SubCall("parse_test_points", idx, resp))
          /\ all_test_points' =
                 IF resp.success
                 THEN ((idx[1] + 1) :> Capped(resp.records, max_test_points_per_feature))
                          @@ all_test_points
                 ELSE all_test_points
    /\ idx' = <<idx[1] + 1>>
    /\ UNCHANGED <<pc, sessionVars, streamVars, parserVars, stageVars, client, max_features,
                   max_test_points_per_feature, pipe_features, all_test_cases, pipeOut>>

\* Step 2, one round of the loop over enumerate(features)
PipelinePoints ==
    /\ pc = "p_points"
    /\ idx[1] < Len(pipe_features)
    /\ \E resp \in SubCallResponses("parse_test_points") :
          /\ calls' = Append(calls, SubCall("parse_test_points", idx, resp))
          /\ all_test_points' =
                 IF resp.success
                 THEN (idx[1] :> Capped(resp.records, max_test_points_per_feature))
                          @@ all_test_points
                 ELSE all_test_points
    /\ idx' = <<idx[1] + 1>>
    /\ UNCHANGED <<pc, sessionVars, streamVars, parserVars, stageVars, client, max_features,
                   max_test_points_per_feature, pipe_features, all_test_cases, pipeOut>>

\* the loop of step 2 is over
PipelinePointsEnd ==
    /\ pc = "p_points"
    /\ idx[1] = Len(pipe_features)
    /\ pc' = "p_cases"
    /\ idx' = <<0, 0>>
    /\ UNCHANGED <<sessionVars, streamVars, parserVars, stageVars, client, max_features,
                   max_test_points_per_feature, pipe_features, all_test_points,
                   all_test_cases, calls, pipeOut>>

\* the (feature index, test point index) pairs of all_test_points
PointPairs(atp) ==
    UNION {{<<f, t>> : t \in 0..(Len(atp[f]) - 1)} : f \in DOMAIN atp}

\* p comes before q, or is q, in the order of the nested loops of step 3
PairLE(p, q) == p[1] < q[1] \/ (p[1] = q[1] /\ p[2] <= q[2])

\* the pairs the loops of step 3 have not reached yet
Pending == {p \in PointPairs(all_test_points) : PairLE(idx, p)}

\* Step 3, one round of the nested loops
PipelineCases ==
    /\ pc = "p_cases"
    /\ Pending # {}
    /\ LET p == CHOOSE x \in Pending : \A y \in Pending : PairLE(x, y)
       IN  /\ \E resp \in SubCallResponses("parse_test_cases") :
                 /\ calls' = Append(calls, SubCall("parse_test_cases", p, resp))
                 /\ all_test_cases' =
                        IF resp.success
                        THEN (p :> resp.records) @@ all_test_cases
                        ELSE all_test_cases
           /\ idx' = <<p[1], p[2] + 1>>
    /\ UNCHANGED <<pc, sessionVars, streamVars, parserVars, stageVars, client, max_features,
                   max_test_points_per_feature, pipe_features, all_test_points, pipeOut>>

\* return FullPipelineResponse(success=True, ...)
PipelineReturn ==
    /\ pc = "p_cases"
    /\ Pending = {}
    /\ pipeOut' =
           [success |-> TRUE, features |-> pipe_features, test_points |-> all_test_points,
            test_cases |-> all_test_cases, error |-> "none"]
    /\ pc' = "p_done"
    /\ UNCHANGED <<sessionVars, streamVars, parserVars, stageVars, client, max_features,
                   max_test_points_per_feature, pipe_features, all_test_points,
                   all_test_cases, idx, calls>>

NextPipeline ==
    \/ PipelineEntry
    \/ PipelineFeatures
    \/ PipelinePoints
    \/ PipelinePointsEnd
    \/ PipelineCases
    \/ PipelineReturn

SpecPipeline == InitPipeline /\ [][NextPipeline]_vars

-----------------------------------------------------------------------------
(* The streaming machine: one streaming stage of generate_chain.py          *)
(* (generate_features_for_gradio_stream, generate_test_points_for_gradio_   *)
(* stream, generate_test_cases_for_gradio_stream; the stage is named by its *)
(* parser) consuming model_util.generate_response_vllm_stream.  Both are    *)
(* generators: each runs only while its consumer asks for the next output,  *)
(* and is suspended at its yield in between.  Positions: g_new (created,    *)
(* not started), g_pull (asking the provider for a chunk), g_snapshot (the  *)
(* inner generator has yielded), g_progress / g_warned / g_final (suspended *)
(* at a yield), g_done (exhausted), g_closed (closed by the consumer),      *)
(* g_error (an exception reached the consumer).                             *)

\* the largest number of chunks the provider delivers
MaxChunks == 3

\* the longest content the provider delivers (max_tokens caps the reply)
MaxContent == 70

\* chunk.choices[0].delta.content: None, or a str
NoContent == [has |-> FALSE, s |-> <<>>]
Content(s) == [has |-> TRUE, s |-> s]

\* a stage's reply with one record, without its closing brace
ReplyHead(stage) ==
    SubSeq(StageReply(StageKey(stage), RecFull), 1,
           Len(StageReply(StageKey(stage), RecFull)) - 1)

\* the chunks the provider can deliver to a stage: no content, empty
\* content, and the two pieces of a valid reply
ChunkContents(stage) == {NoContent, Content(<<>>), Content(ReplyHead(stage)), Content(<<"}">>)}

InitStream ==
    /\ text = <<>>
    /\ pc = "g_new"
    /\ caller \in Stages
    /\ named \in BOOLEAN
    /\ named = FALSE => caller # "parse_features"
    /\ result = JNull
    /\ by = 0
    /\ tried = <<>>
    /\ err = NoErr
    /\ stageOut = NoOut
    /\ StageIdle
    /\ PipelineIdle
    /\ ready \in BOOLEAN
    /\ chunks = <<>>
    /\ content = <<>>
    /\ snapshots = <<>>
    /\ shown = <<>>
    /\ response_text = <<>>
    /\ store = OldStore
    /\ parsed = <<>>
    /\ finalShown = FALSE
    /\ completed = FALSE
    /\ abandoned = NoAbandon
    /\ SessionIdle

\* the positions at which the streaming stage is suspended, waiting for its consumer
Suspended == {"g_new", "g_warned", "g_progress", "g_final"}

\* next() on the streaming stage.  From the start it runs to the warning of
\* a failed guard, or through the templates (which may be missing, and whose
\* format reads feature["name"]) into the streaming loop; from a progress
\* yield it goes back into the loop; after the warning or the final result
\* the generator is exhausted
ConsumerNext ==
    /\ pc \in Suspended
    /\ \E found \in BOOLEAN :
          pc' = CASE pc = "g_new" /\ ~ready -> "g_warned"
                  [] pc = "g_new" /\ ready /\ (~found \/ ~named) -> "g_error"
                  [] pc = "g_new" /\ ready /\ found /\ named -> "g_pull"
                  [] pc = "g_progress" -> "g_pull"
                  [] pc \in {"g_warned", "g_final"} -> "g_done"
    /\ UNCHANGED <<parserVars, stageVars, pipeVars, sessionVars, streamVars>>

\* Faulty variant of ConsumerAbandon: the stage goes on after the consumer left
ConsumerAbandonIgnored ==
    /\ pc \in Suspended
    /\ abandoned' = [at |-> pc, n |-> Len(chunks)]
    /\ pc' = (IF pc = "g_progress" THEN "g_pull" ELSE "g_closed")
    /\ UNCHANGED <<parserVars, stageVars, pipeVars, sessionVars, ready, chunks, content, snapshots, shown,
                   response_text, store, parsed, finalShown, completed>>

\* The consumer abandons the streaming stage: the generator is closed.
\* GeneratorExit is raised at the yield it is suspended at, no handler or
\* finally clause is around it, and nothing of the function runs any more
ConsumerAbandon ==
    /\ pc \in Suspended
    /\ abandoned' = [at |-> pc, n |-> Len(chunks)]
    /\ pc' = "g_closed"
    /\ UNCHANGED <<parserVars, stageVars, pipeVars, sessionVars, ready, chunks, content, snapshots, shown,
                   response_text, store, parsed, finalShown, completed>>

\* generate_response_vllm_stream, one round of "for chunk in response": a
\* chunk whose content is not None is appended and the content is yielded
ProviderChunk ==
    /\ pc = "g_pull"
    /\ Len(chunks) < MaxChunks
    /\ \E c \in ChunkContents(caller) :
          /\ Len(content \o c.s) <= MaxContent
          /\ chunks' = Append(chunks, c)
          /\ IF c.has
             THEN /\ content' = content \o c.s
                  /\ snapshots' = Append(snapshots, content \o c.s)
                  /\ pc' = "g_snapshot"
             ELSE UNCHANGED <<content, snapshots, pc>>
    /\ UNCHANGED <<parserVars, stageVars, pipeVars, sessionVars, ready, shown, response_text, store,
                   parsed, finalShown, completed, abandoned>>

\* the provider raises in the middle of the sequence: the exception passes
\* through both generators to the consumer
ProviderError ==
    /\ pc = "g_pull"
    /\ pc' = "g_error"
    /\ UNCHANGED <<parserVars, stageVars, pipeVars, sessionVars, streamVars>>

\* Faulty variant of SurfaceProgress: every snapshot is parsed as it arrives
SurfaceProgressParsing ==
    /\ pc = "g_snapshot"
    /\ response_text' = snapshots[Len(snapshots)]
    /\ shown' = Append(shown, snapshots[Len(snapshots)])
    /\ parsed' = Append(parsed, snapshots[Len(snapshots)])
    /\ pc' = "g_progress"
    /\ UNCHANGED <<parserVars, stageVars, pipeVars, sessionVars, ready, chunks, content, snapshots, store,
                   finalShown, completed, abandoned>>

\* the streaming stage, one round of "for partial_response in ...":
\* response_text = partial_response; yield the progress output
SurfaceProgress ==
    /\ pc = "g_snapshot"
    /\ response_text' = snapshots[Len(snapshots)]
    /\ shown' = Append(shown, snapshots[Len(snapshots)])
    /\ pc' = "g_progress"
    /\ UNCHANGED <<parserVars, stageVars, pipeVars, sessionVars, ready, chunks, content, snapshots, store,
                   parsed, finalShown, completed, abandoned>>

\* the provider's sequence ends, both loops end, and the stage parser is
\* called on response_text: robust_json_parse starts
ProviderEnd ==
    /\ pc = "g_pull"
    /\ completed' = TRUE
    /\ parsed' = Append(parsed, response_text)
    /\ text' = response_text
    /\ pc' = "check"
    /\ UNCHANGED <<caller, result, by, tried, err, named, stageOut, stageVars, pipeVars, sessionVars,
                   ready, chunks, content, snapshots, shown, response_text, store, finalShown,
                   abandoned>>

\* global_data after the stage has written its records
Written(stage, records) ==
    CASE stage = "parse_features" ->
            [store EXCEPT !.prd_text = "new", !.features = records]
      [] stage = "parse_test_points" -> [store EXCEPT !.test_points = records]
      [] stage = "parse_test_cases" -> [store EXCEPT !.test_cases = records]

\* the stage parser returns, the store is written and the final result is yielded
StreamFinish ==
    /\ pc \in {"returned", "raised"}
    /\ stageOut' = StageParserOut(caller, Outcome, text, named)
    /\ store' = Written(caller, StageParserOut(caller, Outcome, text, named).records)
    /\ finalShown' = TRUE
    /\ pc' = "g_final"
    /\ UNCHANGED <<text, caller, result, by, tried, err, named, stageVars, pipeVars, sessionVars, ready,
                   chunks, content, snapshots, shown, response_text, parsed, completed,
                   abandoned>>

NextStream ==
    \/ ConsumerNext
    \/ ConsumerAbandon
    \/ ProviderChunk
    \/ ProviderError
    \/ SurfaceProgress
    \/ ProviderEnd
    \/ CheckEmpty
    \/ TryTaggedFence
    \/ TryUntaggedFence
    \/ TryBraceSlice
    \/ TryRepair
    \/ TryTruncated
    \/ TryBracketSlice
    \/ RaiseExtraction
    \/ StreamFinish

SpecStream == InitStream /\ [][NextStream]_vars

-----------------------------------------------------------------------------
(* Export and load of the store (SpecExport): export_util.export_data_to_dict *)
(* turns the keys of test_points and test_cases into text, the file keeps    *)
(* them as JSON object keys, and app.load_export_handler turns them back.    *)

DigitChar == [d \in 0..9 |->
                CASE d = 0 -> "0" [] d = 1 -> "1" [] d = 2 -> "2" [] d = 3 -> "3"
                  [] d = 4 -> "4" [] d = 5 -> "5" [] d = 6 -> "6" [] d = 7 -> "7"
                  [] d = 8 -> "8" [] d = 9 -> "9"]

\* the decimal digits of n >= 0, without leading zeros
RECURSIVE DigitsOf(_)
DigitsOf(n) ==
    IF n < 10 THEN <<DigitChar[n]>> ELSE DigitsOf(n \div 10) \o <<DigitChar[n % 10]>>

\* str(n) of an int
IntStr(n) == IF n < 0 THEN <<"-">> \o DigitsOf(-n) ELSE DigitsOf(n)

\* int(s) of a str: surrounding whitespace is stripped, one sign may lead,
\* and digits must follow to the end (single underscores between digits are
\* allowed); anything else raises ValueError.  [ok, n]
IntOf(s) ==
    LET t == Strip(s)
        signed == t # <<>> /\ t[1] \in {"+", "-"}
        d == IF signed THEN Tail(t) ELSE t
        plain == SelectSeq(d, LAMBDA c : c # "_")
        grouped == /\ d # <<>>
                   /\ d[1] # "_"
                   /\ d[Len(d)] # "_"
                   /\ \A i \in 1..(Len(d) - 1) : ~(d[i] = "_" /\ d[i + 1] = "_")
        n == ScanDigits(plain, 1, 0).n
    IN  IF grouped /\ \A i \in 1..Len(plain) : plain[i] \in Digits
        THEN [ok |-> TRUE, n |-> IF signed /\ t[1] = "-" THEN -n ELSE n]
        ELSE [ok |-> FALSE, n |-> 0]

\* s.split(c): the pieces of s between the occurrences of the character c
RECURSIVE SplitOn(_, _)
SplitOn(s, c) ==
    LET at == Find(s, 1, <<c>>)
    IN  IF at = 0 THEN <<s>>
        ELSE <<Slice(s, 1, at - 1)>> \o SplitOn(Slice(s, at + 1, Len(s)), c)

\* f"{key[0]},{key[1]}"
PairStr(key) == IntStr(key[1]) \o <<",">> \o IntStr(key[2])

\* in the loop over d.items(): out[conv(key)] = value.  The keys of out are
\* the converted keys, and where two keys convert alike the one iterated
\* last stays; the iteration order is the insertion order, which the store
\* does not record, so any of them may be the last
Rekeyed(d, Conv(_)) ==
    [k \in {Conv(x) : x \in DOMAIN d} |-> d[CHOOSE x \in DOMAIN d : Conv(x) = k]]

\* export_data_to_dict: the two keyed collections of export_data.  Every key
\* of test_cases is a tuple here, so the isinstance branch is the one taken
ExportDataToDict(g) ==
    [test_points |-> Rekeyed(g.test_points, IntStr),
     test_cases |-> Rekeyed(g.test_cases, PairStr)]

\* the keys of data["test_cases"] load_export_handler keeps: len(parts) == 2
TwoParts(d) == {k \in DOMAIN d : Len(SplitOn(k, ",")) = 2}

\* (int(parts[0]), int(parts[1]))
PairOf(k) == <<IntOf(SplitOn(k, ",")[1]).n, IntOf(SplitOn(k, ",")[2]).n>>

\* int(k)
IntKey(k) == IntOf(k).n

\* load_export_handler's conversions run without ValueError
Loadable(data) ==
    /\ \A k \in DOMAIN data.test_points : IntOf(k).ok
    /\ \A k \in TwoParts(data.test_cases) :
           IntOf(SplitOn(k, ",")[1]).ok /\ IntOf(SplitOn(k, ",")[2]).ok

\* load_export_handler: the two keyed collections of vis_data
VisData(data) ==
    [test_points |-> Rekeyed(data.test_points, IntKey),
     test_cases |->
         Rekeyed([k \in TwoParts(data.test_cases) |-> data.test_cases[k]], PairOf)]

\* Largest key of the stores that are exported
MaxKey == 11

\* the integers the keys are drawn from: negative, one-digit and two-digit
KeyInts == (-1)..MaxKey

\* the integers the pairs are drawn from
PairInts == {-1, 0, 1, MaxKey - 1, MaxKey}

\* the subsets of S with at most two elements
UpToTwo(S) == {{}} \cup {{x, y} : x \in S, y \in S}

\* the record list stored under a key: it names its key, so that a list that
\* ends up under another key shows
ListAt(key) == <<JStr(key)>>

\* the stores that are exported
ExportStores ==
    {[EmptyStore EXCEPT !.test_points = [i \in I |-> ListAt(<<i>>)],
                        !.test_cases = [p \in P |-> ListAt(p)]] :
        I \in UpToTwo(KeyInts), P \in UpToTwo(PairInts \X PairInts)}

InitExport ==
    /\ text = <<>>
    /\ pc = "e_new"
    /\ ParserIdle
    /\ StageIdle
    /\ PipelineIdle
    /\ StreamIdle
    /\ gd \in ExportStores
    /\ exported = NoExport
    /\ loaded = NoExport
    /\ runs = <<>>
    /\ llm_calls = 0
    /\ started = 0
    /\ last = <<>>
    /\ failed = {}

\* Faulty variant of ExportData: the pair keys are written without a separator
ExportDataNoSeparator ==
    /\ pc = "e_new"
    /\ exported' =
           [test_points |-> Rekeyed(gd.test_points, IntStr),
            test_cases |-> Rekeyed(gd.test_cases, LAMBDA key : IntStr(key[1]) \o IntStr(key[2]))]
    /\ pc' = "e_saved"
    /\ UNCHANGED <<gd, loaded, runVars, parserVars, stageVars, pipeVars, streamVars>>

\* save_to_server: export_data_to_dict(global_data) is written to a file,
\* whose JSON object keys are the texts
ExportData ==
    /\ pc = "e_new"
    /\ exported' = ExportDataToDict(gd)
    /\ pc' = "e_saved"
    /\ UNCHANGED <<gd, loaded, runVars, parserVars, stageVars, pipeVars, streamVars>>

\* load_export_handler on the saved file; a ValueError of int() lands in its
\* handler and nothing is shown
LoadExport ==
    /\ pc = "e_saved"
    /\ IF Loadable(exported)
       THEN loaded' = VisData(exported) /\ pc' = "e_loaded"
       ELSE loaded' = loaded /\ pc' = "e_load_error"
    /\ UNCHANGED <<gd, exported, runVars, parserVars, stageVars, pipeVars, streamVars>>

NextExport ==
    \/ ExportData
    \/ LoadExport

SpecExport == InitExport /\ [][NextExport]_vars

-----------------------------------------------------------------------------
(* The interactive session (SpecSession): the generate_*_for_gradio stage   *)
(* functions and their streaming variants on the shared store global_data.  *)
(* A request reads its selection and the store, invokes the LLM, and writes  *)
(* its records when the reply has been parsed; the handlers of two requests *)
(* may overlap.                                                             *)

\* [{"id":2,"name":"a"},{"id":1,"name":"b"}]
RecSwapped ==
    <<"[", "{", Q, "i", "d", Q, ":", "2", ",", Q, "n", "a", "m", "e", Q, ":", Q, "a", Q,
    "}", ",", "{", Q, "i", "d", Q, ":", "1", ",", Q, "n", "a", "m", "e", Q, ":", Q, "b", Q,
    "}", "]">>

\* [{"id":1,"name":"a"},{"id":1,"name":"b"}]
RecSameId ==
    <<"[", "{", Q, "i", "d", Q, ":", "1", ",", Q, "n", "a", "m", "e", Q, ":", Q, "a", Q,
    "}", ",", "{", Q, "i", "d", Q, ":", "1", ",", Q, "n", "a", "m", "e", Q, ":", Q, "b", Q,
    "}", "]">>

\* [{"id":3,"name":"c"}]
RecFromThree ==
    <<"[", "{", Q, "i", "d", Q, ":", "3", ",", Q, "n", "a", "m", "e", Q, ":", Q, "c", Q,
    "}", "]">>

\* the record lists of the LLM's replies in the session: records numbered
\* from 1, out of order, alike, and from 3
SessionLists ==
    [stage \in Stages |->
        CASE stage = "parse_features" -> {RecTwo, RecSwapped, RecSameId, RecFromThree}
          [] stage = "parse_test_points" -> {RecTwo, RecSwapped}
          [] stage = "parse_test_cases" -> {RecSteps}]

\* what the stage parser returns on the reply {"<key>": <list>}
Generated(list) == StageOk(JsonLoads(list).v)

\* what the stage parsers return in the session: the records of a reply with
\* a list, and the failure result on a reply with an empty list and on text
\* no strategy decodes
SessionOutcomes ==
    [stage \in Stages |->
        {Generated(list) : list \in SessionLists[stage]}
            \cup {StageFail("ValueError: none generated",
                            StageReply(StageKey(stage), ValEmptyList)),
                  StageFail("JSONDecodeError", <<"x", "y", "z">>)}]

\* f"{feature['id']}. {feature['name']}", and the same of a test point
ChoiceOf(rec) == IntStr(rec.m[KeyId].n) \o <<".", " ">> \o rec.m[KeyName].s

\* int(choice.split(".")[0]) - 1: [ok, i], ok false when int() raises ValueError
ChoiceIndex(choice) ==
    LET id == IntOf(SplitOn(choice, ".")[1])
    IN  [ok |-> id.ok, i |-> id.n - 1]

\* seq[i] of a list: negative indexes count from the end
PyIndexable(seq, i) == -Len(seq) <= i /\ i < Len(seq)
PyItem(seq, i) == IF i >= 0 THEN seq[i + 1] ELSE seq[Len(seq) + i + 1]

\* where a stage function stands after its guards: "refused" with a warning,
\* "raised" by an exception, or at the LLM call ("llm") with the index and
\* the records it read (a run the LLM call or the parser's handler raises in
\* ends "escaped")
Halt(at) == [at |-> at, fidx |-> 0, tidx |-> 0, feature |-> JNull, test_point |-> JNull]
Go(fidx, tidx, feature, test_point) ==
    [at |-> "llm", fidx |-> fidx, tidx |-> tidx, feature |-> feature,
     test_point |-> test_point]

\* generate_features_for_gradio up to the LLM call: no guard
BeginFeatures(prd_text) == Go(0, 0, JNull, JNull)

\* generate_features_for_gradio_stream up to the LLM call
BeginFeaturesStream(prd_text) ==
    IF IsBlank(prd_text) THEN Halt("refused") ELSE Go(0, 0, JNull, JNull)

\* Faulty variant of BeginTestPoints: the feature's number is taken for its index
BeginTestPointsById(g, feature_choice) ==
    LET f == ChoiceIndex(feature_choice)
    IN  IF ~f.ok THEN Halt("raised")
        ELSE IF f.i < 0 \/ f.i >= Len(g.features) THEN Halt("refused")
        ELSE Go(f.i + 1, 0, PyItem(g.features, f.i), JNull)

\* generate_test_points_for_gradio up to the LLM call
BeginTestPoints(g, feature_choice) ==
    LET f == ChoiceIndex(feature_choice)
    IN  IF ~f.ok THEN Halt("raised")
        ELSE IF f.i < 0 \/ f.i >= Len(g.features) THEN Halt("refused")
        ELSE Go(f.i, 0, PyItem(g.features, f.i), JNull)

\* generate_test_points_for_gradio_stream up to the LLM call
BeginTestPointsStream(g, feature_choice) ==
    LET f == ChoiceIndex(feature_choice)
    IN  IF feature_choice = <<>> THEN Halt("refused")
        ELSE IF ~f.ok THEN Halt("raised")
        ELSE IF f.i < 0 \/ f.i >= Len(g.features) THEN Halt("refused")
        ELSE Go(f.i, 0, PyItem(g.features, f.i), JNull)

\* generate_test_cases_for_gradio up to the LLM call
BeginTestCases(g, feature_choice, tp_choice) ==
    LET f == ChoiceIndex(feature_choice)
        t == ChoiceIndex(tp_choice)
    IN  IF feature_choice = <<>> \/ tp_choice = <<>> THEN Halt("refused")
        ELSE IF ~f.ok \/ ~t.ok THEN Halt("raised")
        ELSE IF f.i \notin DOMAIN g.test_points THEN Halt("refused")
        ELSE IF t.i < 0 \/ t.i >= Len(g.test_points[f.i]) THEN Halt("refused")
        ELSE IF ~PyIndexable(g.features, f.i) THEN Halt("raised")
        ELSE Go(f.i, t.i, PyItem(g.features, f.i), PyItem(g.test_points[f.i], t.i))

\* generate_test_cases_for_gradio_stream up to the LLM call
BeginTestCasesStream(g, feature_choice, tp_choice) ==
    LET f == ChoiceIndex(feature_choice)
        t == ChoiceIndex(tp_choice)
    IN  IF feature_choice = <<>> \/ tp_choice = <<>> THEN Halt("refused")
        ELSE IF ~f.ok \/ ~t.ok THEN Halt("raised")
        ELSE IF f.i \notin DOMAIN g.test_points THEN Halt("refused")
        ELSE IF t.i < 0 \/ t.i >= Len(g.test_points[f.i]) THEN Halt("refused")
        ELSE IF ~PyIndexable(g.features, f.i) THEN Halt("raised")
        ELSE Go(f.i, t.i, PyItem(g.features, f.i), PyItem(g.test_points[f.i], t.i))

\* global_data["prd_text"] = prd_text
StorePrdText(g, prd_text) == [g EXCEPT !.prd_text = prd_text]
StorePrdTextStream(g, prd_text) == [g EXCEPT !.prd_text = prd_text]

\* global_data["features"] = features
StoreFeatures(g, features) == [g EXCEPT !.features = features]
StoreFeaturesStream(g, features) == [g EXCEPT !.features = features]

\* Faulty variant of StoreTestPointsStream: the records are added to the list
\* the slot holds
StoreTestPointsStreamMerging(g, fidx, test_points) ==
    [g EXCEPT !.test_points =
        (fidx :> ((IF fidx \in DOMAIN g.test_points THEN g.test_points[fidx] ELSE <<>>)
                     \o test_points)) @@ g.test_points]

\* Faulty variant of StoreTestPoints: the mapping is made anew
StoreTestPointsAnew(g, fidx, test_points) ==
    [g EXCEPT !.test_points = (fidx :> test_points)]

\* global_data["test_points"][feature_idx] = test_points
StoreTestPoints(g, fidx, test_points) ==
    [g EXCEPT !.test_points = (fidx :> test_points) @@ g.test_points]
StoreTestPointsStream(g, fidx, test_points) ==
    [g EXCEPT !.test_points = (fidx :> test_points) @@ g.test_points]

\* global_data["test_cases"][(feature_idx, test_point_idx)] = test_cases
StoreTestCases(g, fidx, tidx, test_cases) ==
    [g EXCEPT !.test_cases = (<<fidx, tidx>> :> test_cases) @@ g.test_cases]
StoreTestCasesStream(g, fidx, tidx, test_cases) ==
    [g EXCEPT !.test_cases = (<<fidx, tidx>> :> test_cases) @@ g.test_cases]

\* Most generation requests of a session
MaxOps == 2

\* Most handlers running at a time
MaxActive == 2

RunIds == 1..MaxActive

\* what the user selected: the positions in the lists shown (0: none of
\* them) and the records there
NoSel == [f |-> 0, t |-> 0, feature |-> JNull, test_point |-> JNull]

NoRun ==
    [stage |-> "none", streaming |-> FALSE, at |-> "idle", n |-> 0, prd |-> <<>>,
     fidx |-> 0, tidx |-> 0, feature |-> JNull, test_point |-> JNull, out |-> NoOut,
     sel |-> NoSel, onFailed |-> {}]

\* the request of a handler that has ended: what it read and wrote is gone
\* with the call, the positions the user selected stay on the page
Ended(run, at) ==
    [NoRun EXCEPT !.stage = run.stage, !.at = at,
                  !.sel = [NoSel EXCEPT !.f = run.sel.f, !.t = run.sel.t]]

\* the request of a handler that has begun: n is its number, and onFailed
\* the slots it reads whose latest generation failed
Begun(stage, streaming, b, prd, sel, dep) ==
    IF b.at # "llm" THEN Ended([NoRun EXCEPT !.stage = stage, !.sel = sel], b.at)
    ELSE [stage |-> stage, streaming |-> streaming, at |-> "llm", n |-> started + 1,
          prd |-> prd, fidx |-> b.fidx, tidx |-> b.tidx, feature |-> b.feature,
          test_point |-> b.test_point, out |-> NoOut, sel |-> sel,
          onFailed |-> dep \cap failed]

\* the slots of the store
FeaturesSlot == <<"features">>
TestPointsSlot(i) == <<"test_points", i>>
TestCasesSlot(i, j) == <<"test_cases", i, j>>

SlotOf(run) ==
    CASE run.stage = "parse_features" -> FeaturesSlot
      [] run.stage = "parse_test_points" -> TestPointsSlot(run.fidx)
      [] run.stage = "parse_test_cases" -> TestCasesSlot(run.fidx, run.tidx)

\* the slot is in the store
HasSlot(g, slot) ==
    CASE slot[1] = "features" -> TRUE
      [] slot[1] = "test_points" -> slot[2] \in DOMAIN g.test_points
      [] slot[1] = "test_cases" -> <<slot[2], slot[3]>> \in DOMAIN g.test_cases

\* the record list the slot holds
SlotValue(g, slot) ==
    CASE slot[1] = "features" -> g.features
      [] slot[1] = "test_points" -> g.test_points[slot[2]]
      [] slot[1] = "test_cases" -> g.test_cases[<<slot[2], slot[3]>>]

\* the PRD texts of the requests: a document and a blank one
Prds == {<<"p">>, <<" ">>}

\* a choice of an earlier feature list that is no longer shown
StaleChoice == <<"2", ".", " ", "z">>

\* the feature selections of a request: a feature shown, none, a stale one
FeatureSels(g) ==
    {[f |-> p, choice |-> ChoiceOf(g.features[p])] : p \in 1..Len(g.features)}
        \cup {[f |-> 0, choice |-> <<>>], [f |-> 0, choice |-> StaleChoice]}

\* get_test_point_choices(global_data, feature_choice): the list the test
\* point dropdown shows for the selected feature
ShownTestPoints(g, feature_choice) ==
    LET f == ChoiceIndex(feature_choice)
    IN  IF feature_choice = <<>> \/ ~f.ok \/ f.i \notin DOMAIN g.test_points THEN <<>>
        ELSE g.test_points[f.i]

\* the test point selections of a request: a test point shown, or none
TestPointSels(g, feature_choice) ==
    {[t |-> q, choice |-> ChoiceOf(ShownTestPoints(g, feature_choice)[q]),
      test_point |-> ShownTestPoints(g, feature_choice)[q]] :
        q \in 1..Len(ShownTestPoints(g, feature_choice))}
        \cup {[t |-> 0, choice |-> <<>>, test_point |-> JNull]}

\* the stores a session starts from: the empty one of app.py, and one with two
\* features, the test points of both and the test cases of one test point
SeededStore ==
    [prd_text |-> <<"p">>,
     features |-> Generated(RecTwo).records,
     test_points |-> (0 :> Generated(RecTwo).records) @@ (1 :> Generated(RecTwo).records),
     test_cases |-> (<<1, 1>> :> Generated(RecSteps).records)]

SessionStores == {EmptyStore, SeededStore}

InitSession ==
    /\ text = <<>>
    /\ pc = "session"
    /\ ParserIdle
    /\ StageIdle
    /\ PipelineIdle
    /\ StreamIdle
    /\ gd \in SessionStores
    /\ exported = NoExport
    /\ loaded = NoExport
    /\ runs = [r \in RunIds |-> NoRun]
    /\ llm_calls = 0
    /\ started = 0
    /\ last = <<>>
    /\ failed = {}

\* the handler slot a new request takes: the first one that is not running
Running(r) == runs[r].at \in {"llm", "mid"}
Taken(r) ==
    /\ started < MaxOps
    /\ ~Running(r)
    /\ \A x \in RunIds : x < r => Running(x)

\* a request has begun: it stands at the LLM call, or has ended at a guard
Began(r, run) ==
    /\ runs' = [runs EXCEPT ![r] = run]
    /\ started' = started + 1
    /\ llm_calls' = (IF run.at = "llm" THEN llm_calls + 1 ELSE llm_calls)
    /\ UNCHANGED <<gd, last, failed, exported, loaded, text, pc, parserVars, stageVars,
                   pipeVars, streamVars>>

\* a click on "generate features": generate_features_for_gradio(_stream) to
\* its LLM call
StartFeatures(r) ==
    /\ Taken(r)
    /\ \E streaming \in BOOLEAN, prd_text \in Prds :
          Began(r, Begun("parse_features", streaming,
                         IF streaming THEN BeginFeaturesStream(prd_text)
                         ELSE BeginFeatures(prd_text),
                         prd_text, NoSel, {}))

\* a click on "generate test points" with a feature selection
StartTestPoints(r) ==
    /\ Taken(r)
    /\ \E streaming \in BOOLEAN, fs \in FeatureSels(gd) :
          Began(r, Begun("parse_test_points", streaming,
                         IF streaming THEN BeginTestPointsStream(gd, fs.choice)
                         ELSE BeginTestPoints(gd, fs.choice),
                         <<>>,
                         [NoSel EXCEPT !.f = fs.f,
                                       !.feature = IF fs.f = 0 THEN JNull
                                                   ELSE gd.features[fs.f]],
                         {FeaturesSlot}))

\* a click on "generate test cases" with a feature and a test point selection
StartTestCases(r) ==
    /\ Taken(r)
    /\ \E streaming \in BOOLEAN, fs \in FeatureSels(gd) :
          \E ts \in TestPointSels(gd, fs.choice) :
              \E b \in {IF streaming THEN BeginTestCasesStream(gd, fs.choice, ts.choice)
                        ELSE BeginTestCases(gd, fs.choice, ts.choice)} :
                  Began(r, Begun("parse_test_cases", streaming, b, <<>>,
                                 [f |-> fs.f, t |-> ts.t,
                                  feature |-> IF fs.f = 0 THEN JNull ELSE gd.features[fs.f],
                                  test_point |-> ts.test_point],
                                 {FeaturesSlot, TestPointsSlot(b.fidx)}))

\* the LLM call raises: the exception leaves the stage function
LLMRaises(r) ==
    /\ runs[r].at = "llm"
    /\ runs' = [runs EXCEPT ![r] = Ended(runs[r], "escaped")]
    /\ UNCHANGED <<gd, llm_calls, started, last, failed, exported, loaded, text, pc,
                   parserVars, stageVars, pipeVars, streamVars>>

\* the non-streaming LLM call returns no text (message.content is None):
\* robust_json_parse raises inside the stage parser, whose handler raises
\* TypeError on response[:500], and the stage function is left before its write
ReplyNone(r) ==
    /\ runs[r].at = "llm"
    /\ ~runs[r].streaming
    /\ runs' = [runs EXCEPT ![r] = Ended(runs[r], "escaped")]
    /\ failed' = failed \cup {SlotOf(runs[r])}
    /\ UNCHANGED <<gd, llm_calls, started, last, exported, loaded, text, pc,
                   parserVars, stageVars, pipeVars, streamVars>>

\* the feature stage has its reply parsed and writes global_data["prd_text"]
WritePrdText(r) ==
    /\ runs[r].at = "llm"
    /\ runs[r].stage = "parse_features"
    /\ \E out \in SessionOutcomes["parse_features"] :
          runs' = [runs EXCEPT ![r].at = "mid", ![r].out = out]
    /\ gd' = (IF runs[r].streaming THEN StorePrdTextStream(gd, runs[r].prd)
              ELSE StorePrdText(gd, runs[r].prd))
    /\ UNCHANGED <<llm_calls, started, last, failed, exported, loaded, text, pc,
                   parserVars, stageVars, pipeVars, streamVars>>

\* a stage has written its records and returns or yields its final result.
\* last notes the run that completed: its records, its number, the list
\* its write replaced, and whether it had begun before the run that
\* completed before it on this slot (so that the two overlapped)
Completed(r, out) ==
    /\ runs' = [runs EXCEPT ![r] = Ended(runs[r], "done")]
    /\ last' = (SlotOf(runs[r]) :>
                    [records |-> out.records, n |-> runs[r].n,
                     replaced |-> IF HasSlot(gd, SlotOf(runs[r]))
                                  THEN SlotValue(gd, SlotOf(runs[r])) ELSE <<>>,
                     late |-> /\ SlotOf(runs[r]) \in DOMAIN last
                              /\ runs[r].n < last[SlotOf(runs[r])].n]) @@ last
    /\ failed' = (IF out.ok THEN failed \ {SlotOf(runs[r])}
                  ELSE failed \cup {SlotOf(runs[r])})
    /\ UNCHANGED <<llm_calls, started, exported, loaded, text, pc, parserVars, stageVars,
                   pipeVars, streamVars>>

\* the feature stage writes global_data["features"]
WriteFeatures(r) ==
    /\ runs[r].at = "mid"
    /\ gd' = (IF runs[r].streaming THEN StoreFeaturesStream(gd, runs[r].out.records)
              ELSE StoreFeatures(gd, runs[r].out.records))
    /\ Completed(r, runs[r].out)

\* the test point stage has its reply parsed and writes its slot
FinishTestPoints(r) ==
    /\ runs[r].at = "llm"
    /\ runs[r].stage = "parse_test_points"
    /\ \E out \in SessionOutcomes["parse_test_points"] :
          /\ gd' = (IF runs[r].streaming
                    THEN StoreTestPointsStream(gd, runs[r].fidx, out.records)
                    ELSE StoreTestPoints(gd, runs[r].fidx, out.records))
          /\ Completed(r, out)

\* the test case stage has its reply parsed and writes its slot
FinishTestCases(r) ==
    /\ runs[r].at = "llm"
    /\ runs[r].stage = "parse_test_cases"
    /\ \E out \in SessionOutcomes["parse_test_cases"] :
          /\ gd' = (IF runs[r].streaming
                    THEN StoreTestCasesStream(gd, runs[r].fidx, runs[r].tidx, out.records)
                    ELSE StoreTestCases(gd, runs[r].fidx, runs[r].tidx, out.records))
          /\ Completed(r, out)

NextSession ==
    \/ \E r \in RunIds : StartFeatures(r)
    \/ \E r \in RunIds : StartTestPoints(r)
    \/ \E r \in RunIds : StartTestCases(r)
    \/ \E r \in RunIds : LLMRaises(r)
    \/ \E r \in RunIds : ReplyNone(r)
    \/ \E r \in RunIds : WritePrdText(r)
    \/ \E r \in RunIds : WriteFeatures(r)
    \/ \E r \in RunIds : FinishTestPoints(r)
    \/ \E r \in RunIds : FinishTestCases(r)

SpecSession == InitSession /\ [][NextSession]_vars

-----------------------------------------------------------------------------
(* Properties *)

\* robust_json_parse has ended (its outcome stays in result, by and err while
\* a stage parser goes on)
ParserEnded == pc \in {"returned", "raised", "stage_done"}
ParserReturned == ParserEnded /\ by # 0
ParserRaised == ParserEnded /\ by = 0

MinOf(S) == CHOOSE x \in S : \A y \in S : x <= y
MaxOf(S) == CHOOSE x \in S : \A y \in S : x >= y

\* every character of t is whitespace (t may be empty)
AllWhitespace(t) == \A i \in 1..Len(t) : t[i] \in {" ", "\t", "\n", "\r", "\f"}

\* C1: whenever the reply is a JSON object or array between two pieces of
\* prose (no fences), the parser returns the value of that object or array.
C1_EmbeddedValueRecovered ==
    ParserEnded =>
        \A p \in EmbedProse, v \in EmbedPayloads, q \in EmbedProse :
            text = p \o v \o q => by # 0 /\ result = JsonLoads(v).v

\* The prose of family 2 that holds no fence marker, only text and braces
FenceFreeProse == {p \in FenceProse : Find(p, 1, Fence) = 0}

\* C2: whenever the reply is prefix + a block tagged json holding a valid
\* payload + suffix, the parser returns the decoded payload.  Stated for the
\* prefixes and suffixes that hold no fence of their own (text and braces),
\* and for every payload, string values holding a fence marker included.
C2_FencedPayloadReturned ==
    ParserEnded =>
        \A p \in FenceFreeProse, v \in FencePayloads, q \in FenceFreeProse :
            text = p \o Fenced(TagJson, v) \o q => by # 0 /\ result = JsonLoads(v).v

\* the positions of the block contents cs that strictly parse
ParsingBlocks(cs) == {i \in 1..Len(cs) : JsonLoads(cs[i]).ok}

\* C3: whenever the reply holds several blocks tagged json and some block's
\* content parses, the parser returns the content of the first such block in
\* order of appearance: the failing blocks before it are skipped and no later
\* block is returned.
C3_FirstParsingBlockWins ==
    ParserEnded =>
        \A cs \in BlockSeqs(MaxBlocks) \ {<<>>} :
            (text = ProseOk \o JoinBlocks(cs) /\ ParsingBlocks(cs) # {})
                => by = 1 /\ result = JsonLoads(cs[MinOf(ParsingBlocks(cs))]).v

\* C3 witness: a failing block is skipped, the next one is returned, and the
\* larger block after it is not
C3_Witness ==
    /\ ParserEnded
    /\ text = ProseOk \o JoinBlocks(<<BadObj, ObjA, ObjNested>>)
    /\ by = 1
    /\ result = JsonLoads(ObjA).v

\* C4: whenever the reply is a valid object but for one comma before a closing
\* brace or bracket, the parser returns what it returns for the reply without
\* that comma.
C4_TrailingCommaIgnored ==
    ParserEnded =>
        \A c \in CommaCases :
            text = WithComma(c) =>
                by # 0 /\ result = RobustJsonParse(WithoutComma(c)).v

\* C28: whenever the reply is an object that is valid but for one // line
\* comment or one /* */ block comment, the parser returns the value of the
\* reply with the comment deleted, string values holding slashes or stars
\* included.
C28_CommentsStrippedOutsideStrings ==
    ParserEnded =>
        \A c \in CommentCases :
            text = WithComment(c) =>
                /\ ~JsonLoads(BraceSlice(text)).ok
                /\ JsonLoads(WithoutComment(c)).ok
                /\ by # 0
                /\ result = JsonLoads(WithoutComment(c)).v

\* the part of C28 the code does satisfy: a comment next to values that hold
\* neither slashes nor stars is stripped and the object's value returned by
\* the repair strategy
CommentsStrippedBesidePlainValues ==
    ParserEnded =>
        \A c \in {CommentLine, CommentBlock} :
            text = WithComment(c) =>
                by = 4 /\ result = JsonLoads(WithoutComment(c)).v

\* the ends of the line prefixes of s: before each newline, and the end of s
LineCuts(s) == {Len(s)} \cup {j - 1 : j \in {i \in 1..Len(s) : s[i] = NL}}

\* the line prefixes of s that end with a closing brace and strictly parse
ParsingCuts(s) ==
    {c \in LineCuts(s) :
        /\ RStrip(Slice(s, 1, c)) # <<>>
        /\ RStrip(Slice(s, 1, c))[Len(RStrip(Slice(s, 1, c)))] = "}"
        /\ JsonLoads(Slice(s, 1, c)).ok}

\* C5: whenever the reply is a valid multi-line object cut after one of its
\* lines, and some line prefix of its brace slice ends with a closing brace
\* and parses, the parser returns the value of the longest such prefix.
C5_LongestLinePrefixReturned ==
    ParserEnded =>
        \A ls \in MultiLineObjects :
            \A k \in 1..Len(ls) :
                (/\ text = CutAfter(ls, k)
                 /\ HasBraceSlice(text)
                 /\ ParsingCuts(BraceSlice(text)) # {})
                    => /\ by # 0
                       /\ result = JsonLoads(Slice(BraceSlice(text), 1,
                                              MaxOf(ParsingCuts(BraceSlice(text))))).v

\* C6: on an empty or whitespace-only reply the parser raises the empty-input
\* error before consulting any strategy, and the type of that error differs
\* from the type of the error raised when every strategy failed on a reply
\* that is not blank.
C6_EmptyInputFailsFast ==
    /\ (AllWhitespace(text) /\ pc \notin {"idle", "check"})
           => /\ pc \in {"raised", "stage_done"}
              /\ by = 0
              /\ tried = <<>>
              /\ err.type = "ValueError"
    /\ (ParserRaised /\ ~AllWhitespace(text))
           => err.type = "JSONDecodeError" /\ tried # <<>>

C6_Witness ==
    /\ pc = "raised"
    /\ text = <<" ", NL, "\t", " ">>
    /\ err = EmptyInputError
    /\ tried = <<>>

\* C7 as claimed: the extraction error carries a preview of at most 200
\* characters and never the full text.
C7_PreviewNeverWholeText ==
    (ParserRaised /\ err.type = "JSONDecodeError")
        => /\ Len(err.preview) <= PreviewLen
           /\ err.preview # text
           /\ err.doc # text

\* C7 amended: the message of the extraction error embeds exactly the first
\* 200 characters of the reply - all of it when the reply has at most 200
\* characters, a proper prefix when it is longer - and the exception keeps the
\* full reply as its doc attribute.
C7_PreviewIsFirst200 ==
    (ParserRaised /\ err.type = "JSONDecodeError")
        => /\ Len(err.preview) = (IF Len(text) < 200 THEN Len(text) ELSE 200)
           /\ \A i \in 1..Len(err.preview) : err.preview[i] = text[i]
           /\ (Len(text) > 200 => err.preview # text)
           /\ err.doc = text

C7_Witness ==
    /\ pc = "raised"
    /\ err.type = "JSONDecodeError"
    /\ Len(text) > 200
    /\ Len(err.preview) = 200

\* C8: whatever the parser returns is a mapping or an array.
C8_ResultIsMappingOrArray == ParserReturned => result.k \in {"obj", "arr"}

\* the outcome of strategy k on reply t
Strategy(k, t) ==
    CASE k = 1 -> TaggedFence(t)
      [] k = 2 -> UntaggedFence(t)
      [] k = 3 -> BraceParse(t)
      [] k = 4 -> RepairedParse(t)
      [] k = 5 -> TruncatedParse(t)
      [] k = 6 -> BracketParse(t)

\* the order in which the strategies can be consulted on reply t: the repair
\* and the line prefixes apply to a brace slice only
StrategyOrder(t) ==
    IF Find(t, 1, <<"{">>) # 0 /\ RFind(t, Len(t), "}") > Find(t, 1, <<"{">>)
    THEN <<1, 2, 3, 4, 5, 6>>
    ELSE <<1, 2, 3, 6>>

\* C9: the strategies are consulted in the fixed order; a strategy is
\* consulted only after every earlier one failed; the parser returns the
\* result of the first that parses; and the extraction error is raised if and
\* only if all six fail.
C9_StrategiesInOrder ==
    /\ Len(tried) <= Len(StrategyOrder(text))
    /\ tried = SubSeq(StrategyOrder(text), 1, Len(tried))
    /\ \A i \in 1..Len(tried) :
           (i < Len(tried) \/ by = 0 \/ pc \in {"s2", "s3", "s4", "s5", "s6", "fail"})
               => ~Strategy(tried[i], text).ok
    /\ by # 0 => /\ by = tried[Len(tried)]
                 /\ Strategy(by, text).ok
                 /\ result = Strategy(by, text).v
    /\ (ParserEnded /\ ~AllWhitespace(text))
           => /\ by = 0 <=> \A k \in 1..6 : ~Strategy(k, text).ok
              /\ by = 0 <=> err.type = "JSONDecodeError"
              /\ by = 0 => tried = StrategyOrder(text)

\* C9 witness: the line prefix is reached after four failures and returns
C9_Witness ==
    /\ pc = "returned"
    /\ by = 5
    /\ tried = <<1, 2, 3, 4, 5>>
    /\ BracketParse(text).ok

\* the reply parsed and passes the three checks of a stage: the value is a
\* mapping, it holds the stage's key, and the value at that key is neither
\* null nor empty
PassesChecks(stage) ==
    /\ by # 0
    /\ result.k = "obj"
    /\ StageKey(stage) \in DOMAIN result.m
    /\ LET x == result.m[StageKey(stage)]
       IN  /\ x.k # "null"
           /\ ~(x.k = "arr" /\ Len(x.items) = 0)
           /\ ~(x.k = "obj" /\ DOMAIN x.m = {})
           /\ ~(x.k = "str" /\ Len(x.s) = 0)

\* C10: a stage parser reports failure with an empty record list whenever the
\* parsed value is not a mapping, lacks the stage's key or holds an empty or
\* null value there; records are returned only when all three checks pass,
\* and then the stage succeeded and they are the list found at the key.
C10_StageValidation ==
    pc = "stage_done" =>
        /\ ~PassesChecks(caller) => (~stageOut.ok /\ stageOut.records = <<>>)
        /\ stageOut.records # <<>> =>
               /\ PassesChecks(caller)
               /\ stageOut.ok
               /\ stageOut.records = result.m[StageKey(caller)].items
        /\ stageOut.ok => stageOut.records # <<>>

\* C10 witness: the reply parsed to a mapping with the key, holding an empty
\* list, and the stage reported failure
C10_Witness ==
    /\ pc = "stage_done"
    /\ caller = "parse_test_points"
    /\ named
    /\ text = StageReply(StageKey("parse_test_points"), ValEmptyList)
    /\ by = 3
    /\ ~stageOut.ok
    /\ stageOut.records = <<>>

\* the reply parsed and passes the three checks with an array of records:
\* a mapping holding the stage's key with a non-empty array of mappings
ArrayOfRecords(stage) ==
    /\ PassesChecks(stage)
    /\ AllDicts(result.m[StageKey(stage)])

\* C12: a stage parser whose reply passes the three checks (mapping, key
\* present, non-empty array of records) succeeds and returns exactly the
\* array at the key, whatever fields the records carry.
C12_ValidReplySucceeds ==
    (pc = "stage_done" /\ named /\ ArrayOfRecords(caller)) =>
        /\ stageOut.ok
        /\ stageOut.records = result.m[StageKey(caller)].items

\* C14: whenever a stage parser ends in failure, its error text holds the
\* exception and a preview that is the first 500 characters of the raw reply
\* (all of it when it is shorter), followed by the ellipsis marker exactly
\* when the reply has more than 500 characters.
C14_FailurePreview ==
    (pc = "stage_done" /\ ~stageOut.ok) =>
        /\ stageOut.exc \notin {"none", "pending"}
        /\ Len(stageOut.preview) = (IF Len(text) < 500 THEN Len(text) ELSE 500)
        /\ \A i \in 1..Len(stageOut.preview) : stageOut.preview[i] = text[i]
        /\ stageOut.ellipsis <=> Len(text) > 500
        /\ stageOut.records = <<>>

\* C14 witness: a reply of 501 characters fails, and the error text shows 500
\* of them and the marker
C14_Witness ==
    /\ pc = "stage_done"
    /\ ~stageOut.ok
    /\ Len(text) = 501
    /\ Len(stageOut.preview) = 500
    /\ stageOut.ellipsis

-----------------------------------------------------------------------------
(* Properties of the stage functions and endpoints (SpecStage) *)

\* C11: an API endpoint answers success=false whenever the parsed reply is
\* not a mapping, lacks the stage's key or holds an empty array there, so
\* success=true comes with a non-empty record list.
C11_EndpointValidation ==
    (pc = "api_done" /\ reply = "text") =>
        /\ ~PassesChecks(caller) => ~apiOut.success
        /\ apiOut.success => apiOut.records # <<>>

\* C13: no stage function raises past its boundary, whatever the LLM and the
\* templates do: it always ends with a returned result.
C13_NoStageRaises == pc # "escaped" /\ escaped = "none"

\* C15: every failed endpoint response, for a failure after the LLM replied
\* with text that is not blank, holds a part of the raw reply (in
\* raw_response or quoted in the error message).
C15_FailureRetainsRawReply ==
    (pc = "api_done" /\ ~apiOut.success /\ reply = "text" /\ ~AllWhitespace(text)) =>
        (apiOut.raw.has \/ apiOut.retained # <<>>)

-----------------------------------------------------------------------------
(* Properties of the full pipeline (SpecPipeline) *)

\* the positions in calls of the sub-calls of a stage
CallsOf(stage) == {k \in DOMAIN calls : calls[k].stage = stage}

\* the pipeline has ended after a successful feature extraction
ExtractionSucceeded == pc = "p_done" /\ calls # <<>> /\ calls[1].resp.success

\* C16: once feature extraction has succeeded the pipeline reports
\* success=true whatever the test-point and test-case sub-calls did; every
\* feature got its test-point sub-call and every kept test point its
\* test-case sub-call, each exactly once; a succeeding sub-call's records are
\* in the result at its position and a failing one leaves its own position
\* absent, nothing else.
C16_SiblingIsolation ==
    ExtractionSucceeded =>
        /\ pipeOut.success
        /\ pipeOut.features = pipe_features
        /\ pipeOut.test_points = all_test_points
        /\ pipeOut.test_cases = all_test_cases
        /\ \A f \in 0..(Len(pipe_features) - 1) :
               \E k \in CallsOf("parse_test_points") :
                   /\ calls[k].at = <<f>>
                   /\ IF calls[k].resp.success
                      THEN /\ f \in DOMAIN all_test_points
                           /\ all_test_points[f] =
                                  Capped(calls[k].resp.records, max_test_points_per_feature)
                      ELSE f \notin DOMAIN all_test_points
        /\ \A p \in PointPairs(all_test_points) :
               \E k \in CallsOf("parse_test_cases") :
                   /\ calls[k].at = p
                   /\ IF calls[k].resp.success
                      THEN /\ p \in DOMAIN all_test_cases
                           /\ all_test_cases[p] = calls[k].resp.records
                      ELSE p \notin DOMAIN all_test_cases
        /\ Cardinality(CallsOf("parse_test_points")) = Len(pipe_features)
        /\ Cardinality(CallsOf("parse_test_cases")) = Cardinality(PointPairs(all_test_points))
        /\ DOMAIN all_test_cases \subseteq PointPairs(all_test_points)

\* C16 witness: of two features the first one's test-point sub-call failed
\* and the second one's gave two test points; of their test-case sub-calls
\* the first failed and the second succeeded
C16_Witness ==
    /\ ExtractionSucceeded
    /\ pipeOut.success
    /\ Len(pipe_features) = 2
    /\ DOMAIN all_test_points = {1}
    /\ Len(all_test_points[1]) = 2
    /\ DOMAIN all_test_cases = {<<1, 1>>}

\* C17: with a maximum feature count n at most n features are processed and
\* returned, and with a maximum test-point count m at most m test points are
\* kept per feature and at most m test-case sub-calls are made for it, for
\* every n and m, 0 included.
C17_CapsRespected ==
    ExtractionSucceeded =>
        /\ max_features.some =>
               /\ Len(pipeOut.features) <= max_features.n
               /\ Cardinality(CallsOf("parse_test_points")) <= max_features.n
        /\ max_test_points_per_feature.some =>
               \A f \in DOMAIN all_test_points :
                   /\ Len(all_test_points[f]) <= max_test_points_per_feature.n
                   /\ Cardinality({k \in CallsOf("parse_test_cases") : calls[k].at[1] = f})
                          <= max_test_points_per_feature.n

\* the feature extraction sub-call of the pipeline answered success=False
ExtractionFailed == calls # <<>> /\ ~calls[1].resp.success

\* C24: if feature extraction fails in run_full_pipeline, the result is
\* success=false with empty features, test_points and test_cases and an
\* error message, and the extraction is the only LLM call the pipeline made.
C24_ExtractionFailureEndsPipeline ==
    ExtractionFailed =>
        /\ pc = "p_done"
        /\ ~pipeOut.success
        /\ pipeOut.features = <<>>
        /\ pipeOut.test_points = <<>>
        /\ pipeOut.test_cases = <<>>
        /\ pipeOut.error \notin {"none", "pending"}
        /\ pipeOut.error = calls[1].resp.exc
        /\ Len(calls) = 1
        /\ CallsOf("parse_test_points") = {}
        /\ CallsOf("parse_test_cases") = {}

\* C24 witness: the extraction reply was text no strategy decodes and the
\* pipeline has ended
C24_Witness ==
    /\ ExtractionFailed
    /\ pc = "p_done"
    /\ calls[1].resp.exc = "JSONDecodeError"
    /\ pipeOut.error = "JSONDecodeError"

-----------------------------------------------------------------------------
(* Properties of the streaming stages (SpecStream) *)

\* the last snapshot, the empty text if there was none
LastSnapshot == IF snapshots = <<>> THEN <<>> ELSE snapshots[Len(snapshots)]

\* C18: in a streaming stage every snapshot is surfaced as one progress
\* output, in the order received; the stage parser is invoked only after the
\* sequence has completed, once, on the last snapshot; and the shared store
\* is not written before completion.
C18_ParseOnlyAfterCompletion ==
    /\ pc # "g_snapshot" => shown = snapshots
    /\ pc = "g_snapshot" => shown = SubSeq(snapshots, 1, Len(snapshots) - 1)
    /\ ~completed => (parsed = <<>> /\ store = OldStore /\ ~finalShown)
    /\ completed => parsed = <<LastSnapshot>>
    /\ finalShown => (completed /\ store = Written(caller, stageOut.records))

\* C18 witness: three chunks, one without content, gave two snapshots; both
\* were surfaced, the parser ran once on the second and the stage succeeded
C18_Witness ==
    /\ pc = "g_final"
    /\ chunks = <<NoContent, Content(ReplyHead(caller)), Content(<<"}">>)>>
    /\ shown = <<ReplyHead(caller), StageReply(StageKey(caller), RecFull)>>
    /\ parsed = <<StageReply(StageKey(caller), RecFull)>>
    /\ stageOut.ok
    /\ store # OldStore

\* C19: the snapshots generate_response_vllm_stream yields are strictly
\* prefix-growing: each is a proper extension of the one before it,
\* whatever chunks the provider delivers.
C19_StrictlyGrowing ==
    \A i \in 1..(Len(snapshots) - 1) :
        /\ Len(snapshots[i]) < Len(snapshots[i + 1])
        /\ snapshots[i] = SubSeq(snapshots[i + 1], 1, Len(snapshots[i]))

\* C20: once the consumer has abandoned a streaming stage before its
\* sequence completed, no further chunk is requested from the provider, the
\* stage parser is never invoked, no final result is produced and the store
\* keeps the values it had.
C20_AbandonStopsStage ==
    abandoned.at \in {"g_new", "g_progress"} =>
        /\ pc = "g_closed"
        /\ Len(chunks) = abandoned.n
        /\ ~completed
        /\ parsed = <<>>
        /\ ~finalShown
        /\ store = OldStore

\* C20 witness: abandoned after the second progress output
C20_Witness ==
    /\ pc = "g_closed"
    /\ abandoned.at = "g_progress"
    /\ Len(shown) = 2
    /\ parsed = <<>>

-----------------------------------------------------------------------------
(* Properties of the export and load of the store (SpecExport) *)

\* C30: exporting the store and loading the export back gives the same
\* test_points and test_cases mappings, for every store whose test_points
\* keys are integers and whose test_cases keys are pairs of integers; no two
\* keys have the same text.
C30_ExportLoadRoundTrip ==
    /\ pc \in {"e_saved", "e_loaded"} =>
           /\ Cardinality(DOMAIN exported.test_points) = Cardinality(DOMAIN gd.test_points)
           /\ Cardinality(DOMAIN exported.test_cases) = Cardinality(DOMAIN gd.test_cases)
           /\ \A i \in DOMAIN gd.test_points :
                  /\ IntStr(i) \in DOMAIN exported.test_points
                  /\ exported.test_points[IntStr(i)] = gd.test_points[i]
           /\ \A p \in DOMAIN gd.test_cases :
                  /\ PairStr(p) \in DOMAIN exported.test_cases
                  /\ exported.test_cases[PairStr(p)] = gd.test_cases[p]
    /\ pc # "e_load_error"
    /\ pc = "e_loaded" =>
           /\ loaded.test_points = gd.test_points
           /\ loaded.test_cases = gd.test_cases

\* C30 witness: a store with a negative and a two-digit key, and with the
\* pairs (1, 11) and (11, 1), has been exported and loaded back
C30_Witness ==
    /\ pc = "e_loaded"
    /\ DOMAIN gd.test_points = {-1, 11}
    /\ DOMAIN gd.test_cases = {<<1, 11>>, <<11, 1>>}
    /\ DOMAIN exported.test_cases =
           {<<"1", ",", "1", "1">>, <<"1", "1", ",", "1">>}
    /\ loaded.test_cases = gd.test_cases

-----------------------------------------------------------------------------
(* Properties of the interactive session (SpecSession) *)

\* C25: every feature index with a test_points entry is an index of the
\* features list the store holds, and every (i, j) key of test_cases names an
\* existing test point j of test_points[i]
C25_DescendantsBelongToParents ==
    /\ \A i \in DOMAIN gd.test_points : 0 <= i /\ i < Len(gd.features)
    /\ \A k \in DOMAIN gd.test_cases :
          /\ k[1] \in DOMAIN gd.test_points
          /\ 0 <= k[2] /\ k[2] < Len(gd.test_points[k[1]])

\* C22: a request made with the choice of the feature at position p of the
\* list shown (and of the test point at position q) is not turned away, reads
\* the records at those positions, and writes under the key p (or (p, q)),
\* counted from 0, whatever ids the records carry
C22_SelectionIsPositional ==
    \A r \in RunIds :
        /\ runs[r].stage = "parse_test_points" /\ runs[r].sel.f > 0
              => runs[r].at \notin {"refused", "raised"}
        /\ runs[r].stage = "parse_test_cases" /\ runs[r].sel.f > 0 /\ runs[r].sel.t > 0
              => runs[r].at \notin {"refused", "raised"}
        /\ Running(r) /\ runs[r].sel.f > 0
              => /\ runs[r].fidx = runs[r].sel.f - 1
                 /\ runs[r].feature = runs[r].sel.feature
        /\ Running(r) /\ runs[r].sel.t > 0
              => /\ runs[r].tidx = runs[r].sel.t - 1
                 /\ runs[r].test_point = runs[r].sel.test_point

\* C21: after a generation failed (its reply did not parse, or lacked the
\* key or held an empty list), the slot of its key holds the empty list; no
\* request that reads a slot whose generation failed reaches the LLM call,
\* and none is ended by an exception at its guards instead of a refusal
C21_FailedSlotEmptyAndNotRead ==
    /\ \A slot \in failed : HasSlot(gd, slot) /\ SlotValue(gd, slot) = <<>>
    /\ \A r \in RunIds : Running(r) => runs[r].onFailed = {}
    /\ \A r \in RunIds : runs[r].at = "raised" => FeaturesSlot \notin failed

\* C23: a slot written by generation runs holds exactly the record list of the
\* run that completed last on it, whatever the order the runs began in
C23_LastWriterWins ==
    \A slot \in DOMAIN last :
        /\ HasSlot(gd, slot)
        /\ SlotValue(gd, slot) = last[slot].records

\* a run that began before the run completed before it has written its slot
\* over records that differ from its own
C23_Witness ==
    \E slot \in DOMAIN last :
        /\ last[slot].late
        /\ last[slot].replaced # <<>>
        /\ last[slot].records # <<>>
        /\ last[slot].replaced # last[slot].records
        /\ slot[1] = "test_points"

\* the mapping after the step differs from the one before at most at key
SameButAt(before, after, key) ==
    /\ DOMAIN before \subseteq DOMAIN after
    /\ DOMAIN after \subseteq DOMAIN before \cup {key}
    /\ \A k \in DOMAIN before : k # key => after[k] = before[k]

\* the step of handler r stays inside the slot of its stage and key
StaysInOwnSlot(r) ==
    CASE runs[r].stage = "parse_features" ->
            /\ gd'.test_points = gd.test_points
            /\ gd'.test_cases = gd.test_cases
      [] runs[r].stage = "parse_test_points" ->
            /\ gd'.prd_text = gd.prd_text
            /\ gd'.features = gd.features
            /\ gd'.test_cases = gd.test_cases
            /\ SameButAt(gd.test_points, gd'.test_points, runs[r].fidx)
      [] runs[r].stage = "parse_test_cases" ->
            /\ gd'.prd_text = gd.prd_text
            /\ gd'.features = gd.features
            /\ gd'.test_points = gd.test_points
            /\ SameButAt(gd.test_cases, gd'.test_cases, <<runs[r].fidx, runs[r].tidx>>)

BothCall(b, bs) == b.at = "llm" /\ bs.at = "llm"

\* C29: on the store held, for every request that brings both the streaming
\* and the non-streaming stage function to a reply, the two read the same
\* index and records, and on every parser result of the same reply text they
\* leave the same store (the output and status are the parser's in both)
C29_StreamingEndsAlike ==
    /\ \A prd_text \in Prds :
          \A b \in {BeginFeatures(prd_text)}, bs \in {BeginFeaturesStream(prd_text)} :
              BothCall(b, bs) =>
                  /\ b = bs
                  /\ \A out \in SessionOutcomes["parse_features"] :
                        StoreFeatures(StorePrdText(gd, prd_text), out.records)
                            = StoreFeaturesStream(StorePrdTextStream(gd, prd_text), out.records)
    /\ \A fs \in FeatureSels(gd) :
          /\ \A b \in {BeginTestPoints(gd, fs.choice)},
                bs \in {BeginTestPointsStream(gd, fs.choice)} :
                  BothCall(b, bs) =>
                      /\ b = bs
                      /\ \A out \in SessionOutcomes["parse_test_points"] :
                            StoreTestPoints(gd, b.fidx, out.records)
                                = StoreTestPointsStream(gd, bs.fidx, out.records)
          /\ \A ts \in TestPointSels(gd, fs.choice) :
                \A b \in {BeginTestCases(gd, fs.choice, ts.choice)},
                   bs \in {BeginTestCasesStream(gd, fs.choice, ts.choice)} :
                      BothCall(b, bs) =>
                          /\ b = bs
                          /\ \A out \in SessionOutcomes["parse_test_cases"] :
                                StoreTestCases(gd, b.fidx, b.tidx, out.records)
                                    = StoreTestCasesStream(gd, bs.fidx, bs.tidx, out.records)

\* a streaming and a non-streaming feature generation have parsed the same
\* reply and written, on a store whose selections bring both variants of the
\* later stages to the LLM call
C29_Witness ==
    /\ \E r, x \in RunIds :
          /\ runs[r].at = "mid" /\ runs[x].at = "mid"
          /\ runs[r].streaming /\ ~runs[x].streaming
          /\ runs[r].out = runs[x].out
          /\ runs[r].out.ok
    /\ \E fs \in FeatureSels(gd) :
          /\ BothCall(BeginTestPoints(gd, fs.choice), BeginTestPointsStream(gd, fs.choice))
          /\ \E ts \in TestPointSels(gd, fs.choice) :
                BothCall(BeginTestCases(gd, fs.choice, ts.choice),
                         BeginTestCasesStream(gd, fs.choice, ts.choice))

====
